---- MODULE Spec2Model ----
(***************************************************************************)
(* Model of the review agent's verdict and publishing core                 *)
(* (scripts/post-review.py) and of its round budget (scripts/llm-review.py).*)
(*                                                                         *)
(* Text is modelled as follows.  File paths and the path fragments the     *)
(* risk checks look for are sequences of one-character strings, so that    *)
(* Python's `x in f` and `f.endswith(x)` are computed, not assumed.        *)
(* Dictionaries whose keys may be absent (config, diff_stats, findings)    *)
(* are records with a varying DOMAIN, read through Get(d, k, default).     *)
(* The nested config sections (review / risk / risk.thresholds / files /   *)
(* branding) are flattened into one record.                                *)
(***************************************************************************)
EXTENDS Integers, Sequences, FiniteSets, TLC

VARIABLES
    pc,             \* position of the running script
    config,         \* load_config() result (flattened)
    diff,           \* /tmp/pr.diff, as a sequence of line blocks
    changed_files,  \* /tmp/changed-files.txt
    diff_stats,     \* compute_diff_stats(diff) or the caller's dict
    suggestions,    \* result["suggestions"]
    repo,           \* GITHUB_REPOSITORY is set
    event,          \* determine_review_event(...)[0]
    event_reasons,  \* determine_review_event(...)[1]
    num_changed_files, \* argument of compute_max_tool_rounds
    max_rounds,     \* its result
    run,            \* local state of post_review_via_gh
    hub,            \* the hosting platform's state for this pull request
    writes,         \* write requests issued by the current run, in order
    runNo,          \* which publish run this is
    fails,          \* hosting-API calls that have failed so far
    agent,          \* state of live_review (the agent loop and what follows)
    twin,           \* a second live_review fed the same responses
    scan,           \* get_diff_line_sets part-way through a diff
    cov,            \* arguments and result of check_file_coverage
    prox,           \* arguments and result of the two proximity helpers
    tool,           \* one tool call against a file system
    gh_calls        \* _gh_api invocations of the current publish run

vars == <<pc, config, diff, changed_files, diff_stats, suggestions, repo,
          event, event_reasons, num_changed_files, max_rounds,
          run, hub, writes, runNo, fails, agent, twin, scan, cov,
          prox, tool, gh_calls>>

-----------------------------------------------------------------------------
(* Bounds of the model *)

MaxFindings == 2
MaxFiles == 2
MaxChangedFiles == 100
MaxRuns == 2
MaxFailures == 2

-----------------------------------------------------------------------------
(* Generic helpers standing for Python built-ins *)

\* dict.get(k, default)
Get(d, k, default) == IF k \in DOMAIN d THEN d[k] ELSE default

\* `p in f` on strings
Contains(p, f) ==
    \E i \in 0..(Len(f) - Len(p)) : SubSeq(f, i + 1, i + Len(p)) = p

\* f.endswith(e)
EndsWith(f, e) ==
    /\ Len(e) <= Len(f)
    /\ SubSeq(f, Len(f) - Len(e) + 1, Len(f)) = e

\* any(c(x) for x in seq) is written \E x \in Elems(seq) : c(x)
Elems(seq) == {seq[i] : i \in 1..Len(seq)}

MinOf(S) == CHOOSE m \in S : \A k \in S : m <= k
Min2(a, b) == IF a <= b THEN a ELSE b
Max2(a, b) == IF a >= b THEN a ELSE b

\* All sequences over S of length at most n
SeqsUpTo(S, n) == UNION {[1..k -> S] : k \in 0..n}

EmptyDict == [k \in {} |-> 0]

-----------------------------------------------------------------------------
(* Path and fragment literals *)

P_README_md == <<"R", "E", "A", "D", "M", "E", ".", "m", "d">>
P_alembic_init == <<"a", "l", "e", "m", "b", "i", "c", "/", "v", "e", "r", "s", "i", "o", "n", "s", "/", "0", "0", "1", "_", "i", "n", "i", "t", ".", "p", "y">>
P_src_a_py == <<"s", "r", "c", "/", "a", ".", "p", "y">>
P_auth_login_py == <<"a", "u", "t", "h", "/", "l", "o", "g", "i", "n", ".", "p", "y">>
P_Dockerfile == <<"D", "o", "c", "k", "e", "r", "f", "i", "l", "e">>
P_requirements_txt == <<"r", "e", "q", "u", "i", "r", "e", "m", "e", "n", "t", "s", ".", "t", "x", "t">>
P_config_env == <<"c", "o", "n", "f", "i", "g", "/", ".", "e", "n", "v">>
P_docs_guide_md == <<"d", "o", "c", "s", "/", "g", "u", "i", "d", "e", ".", "m", "d">>

F_migrations == <<"m", "i", "g", "r", "a", "t", "i", "o", "n", "s", "/">>
F_alembic == <<"a", "l", "e", "m", "b", "i", "c", "/">>
F_auth == <<"a", "u", "t", "h", "/">>
F_security == <<"s", "e", "c", "u", "r", "i", "t", "y", "/">>
F_middleware == <<"m", "i", "d", "d", "l", "e", "w", "a", "r", "e", "/">>
X_env == <<".", "e", "n", "v">>
X_env_example == <<".", "e", "n", "v", ".", "e", "x", "a", "m", "p", "l", "e">>
X_key == <<".", "k", "e", "y">>
F_credentials == <<"c", "r", "e", "d", "e", "n", "t", "i", "a", "l", "s">>
D_requirements_txt == <<"r", "e", "q", "u", "i", "r", "e", "m", "e", "n", "t", "s", ".", "t", "x", "t">>
D_pyproject_toml == <<"p", "y", "p", "r", "o", "j", "e", "c", "t", ".", "t", "o", "m", "l">>
D_package_json == <<"p", "a", "c", "k", "a", "g", "e", ".", "j", "s", "o", "n">>
D_package_lock_json == <<"p", "a", "c", "k", "a", "g", "e", "-", "l", "o", "c", "k", ".", "j", "s", "o", "n">>
D_pnpm_lock_yaml == <<"p", "n", "p", "m", "-", "l", "o", "c", "k", ".", "y", "a", "m", "l">>
X_md == <<".", "m", "d">>
X_mdc == <<".", "m", "d", "c">>
X_txt == <<".", "t", "x", "t">>
X_rst == <<".", "r", "s", "t">>
F_docker_compose == <<"d", "o", "c", "k", "e", "r", "-", "c", "o", "m", "p", "o", "s", "e">>
F_Dockerfile == <<"D", "o", "c", "k", "e", "r", "f", "i", "l", "e">>
F_github_workflows == <<".", "g", "i", "t", "h", "u", "b", "/", "w", "o", "r", "k", "f", "l", "o", "w", "s", "/">>
F_src == <<"s", "r", "c", "/">>
F_docs == <<"d", "o", "c", "s", "/">>

-----------------------------------------------------------------------------
(* Defaults the code falls back to when a config key is absent *)

DefaultStructuralPaths == <<F_migrations, F_alembic>>
DefaultSecurityPaths == <<F_auth, F_security, F_middleware>>
SecretSuffixes == <<X_env, X_env_example, X_key>>
DefaultDepFiles == <<D_requirements_txt, D_pyproject_toml, D_package_json,
                     D_package_lock_json, D_pnpm_lock_yaml>>
DefaultDocExtensions == <<X_md, X_mdc, X_txt, X_rst>>
DefaultInfraPatterns == <<F_docker_compose, F_Dockerfile, F_github_workflows>>
DefaultMaxCodeFiles == 15
DefaultMaxCodeLines == 1000
DefaultCrossCuttingDomains == 3

-----------------------------------------------------------------------------
(* Risk assessment *)

\* A reason string, by its parts: the fixed text (kind) and what is
\* interpolated into it.
Reason(kind, path, title, n, domains) ==
    [kind |-> kind, path |-> path, title |-> title, n |-> n, domains |-> domains]
SimpleReason(kind) == Reason(kind, <<>>, "", 0, {})
NoReason == SimpleReason("None")

Risky(reason) == [risky |-> TRUE, reason |-> reason]
NotRisky == [risky |-> FALSE, reason |-> NoReason]

has_structural_risk(files, cfg) ==
    LET structural_paths == Get(cfg, "structural_paths", DefaultStructuralPaths)
        hits == {i \in 1..Len(structural_paths) :
                    (\E f \in Elems(files) : Contains(structural_paths[i], f))}
    IN  IF hits # {}
        THEN Risky(Reason("Structural risk", structural_paths[MinOf(hits)], "", 0, {}))
        ELSE NotRisky

has_security_risk(files, cfg) ==
    LET security_paths == Get(cfg, "security_paths", DefaultSecurityPaths)
        dep_files == Get(cfg, "security_dep_files", DefaultDepFiles)
    IN  IF (\E f \in Elems(files) : (\E p \in Elems(security_paths) : Contains(p, f)))
        THEN Risky(SimpleReason("Security-sensitive file changed"))
        ELSE IF (\E f \in Elems(files) :
                    \/ (\E e \in Elems(SecretSuffixes) : EndsWith(f, e))
                    \/ Contains(F_credentials, f))
        THEN Risky(SimpleReason("Environment/secrets file changed"))
        ELSE IF (\E f \in Elems(files) : (\E d \in Elems(dep_files) : EndsWith(f, d)))
        THEN Risky(SimpleReason("Dependency change"))
        ELSE NotRisky

\* code_lines of has_complexity_risk, with its fallback to the total delta
complexity_code_lines(stats) ==
    LET code_lines == Get(stats, "code_lines_added", 0) + Get(stats, "code_lines_removed", 0)
    IN  IF code_lines = 0
        THEN Get(stats, "lines_added", 0) + Get(stats, "lines_removed", 0)
        ELSE code_lines

has_complexity_risk(files, stats, sugg, cfg) ==
    LET doc_exts == Get(cfg, "doc_extensions", DefaultDocExtensions)
        code_files == SelectSeq(files, LAMBDA f : ~(\E ext \in Elems(doc_exts) : EndsWith(f, ext)))
        code_file_count == Len(code_files)
        max_files == Get(cfg, "max_code_files", DefaultMaxCodeFiles)
        code_lines == complexity_code_lines(stats)
        max_lines == Get(cfg, "max_code_lines", DefaultMaxCodeLines)
        domain_map == Get(cfg, "domain_paths", <<>>)
        domains_touched ==
            {domain_map[j].domain : j \in
                {k \in 1..Len(domain_map) :
                    (\E f \in Elems(files) : Contains(domain_map[k].path, f))}}
        cross_cutting == Get(cfg, "cross_cutting_domains", DefaultCrossCuttingDomains)
        infra_patterns == Get(cfg, "infrastructure_patterns", DefaultInfraPatterns)
    IN  IF code_file_count > max_files
        THEN Risky(Reason("Large PR", <<>>, "", code_file_count, {}))
        ELSE IF code_lines > max_lines
        THEN Risky(Reason("Large diff", <<>>, "", code_lines, {}))
        ELSE IF domain_map # <<>> /\ Cardinality(domains_touched) >= cross_cutting
        THEN Risky(Reason("Cross-cutting change", <<>>, "", 0, domains_touched))
        ELSE IF (\E f \in Elems(files) : (\E p \in Elems(infra_patterns) : Contains(p, f)))
        THEN Risky(SimpleReason("Infrastructure change"))
        ELSE NotRisky

\* Faulty variant: the complexity check is left out of the loop
needs_human_review_NoComplexity(files, stats, sugg, cfg) ==
    LET checks == << has_structural_risk(files, cfg),
                     has_security_risk(files, cfg) >>
        tripped == SelectSeq(checks, LAMBDA c : c.risky)
        reasons == [i \in 1..Len(tripped) |-> tripped[i].reason]
    IN  [needed |-> Len(reasons) > 0, reasons |-> reasons]

\* Faulty variant: the loop stops at the first check that trips
needs_human_review_ShortCircuit(files, stats, sugg, cfg) ==
    LET checks == << has_structural_risk(files, cfg),
                     has_security_risk(files, cfg),
                     has_complexity_risk(files, stats, sugg, cfg) >>
        tripped == SelectSeq(checks, LAMBDA c : c.risky)
        reasons == IF tripped = <<>> THEN <<>> ELSE <<tripped[1].reason>>
    IN  [needed |-> Len(reasons) > 0, reasons |-> reasons]

\* Faulty variant: len(reasons) >= 0 instead of > 0
needs_human_review_AlwaysNeeded(files, stats, sugg, cfg) ==
    LET checks == << has_structural_risk(files, cfg),
                     has_security_risk(files, cfg),
                     has_complexity_risk(files, stats, sugg, cfg) >>
        tripped == SelectSeq(checks, LAMBDA c : c.risky)
        reasons == [i \in 1..Len(tripped) |-> tripped[i].reason]
    IN  [needed |-> Len(reasons) >= 0, reasons |-> reasons]

\* The three checks in the order of the loop, each appended when it trips
needs_human_review(files, stats, sugg, cfg) ==
    LET checks == << has_structural_risk(files, cfg),
                     has_security_risk(files, cfg),
                     has_complexity_risk(files, stats, sugg, cfg) >>
        tripped == SelectSeq(checks, LAMBDA c : c.risky)
        reasons == [i \in 1..Len(tripped) |-> tripped[i].reason]
    IN  [needed |-> Len(reasons) > 0, reasons |-> reasons]

IsCritical(s) == Get(s, "severity", "None") = "critical"

\* Faulty variant: the auto-approve switch is consulted before the critical findings
determine_review_event_AutoFirst(sugg, files, stats, cfg) ==
    LET auto_approve == Get(cfg, "auto_approve_enabled", TRUE)
        critical == SelectSeq(sugg, IsCritical)
        human == needs_human_review(files, stats, sugg, cfg)
    IN  IF ~auto_approve
        THEN [event |-> "COMMENT", reasons |-> <<SimpleReason("Auto-approval disabled")>>]
        ELSE IF critical # <<>>
        THEN [event |-> "REQUEST_CHANGES",
              reasons |-> [i \in 1..Len(critical) |->
                  Reason("Critical", <<>>, Get(critical[i], "title", "unknown"), 0, {})]]
        ELSE IF human.needed
        THEN [event |-> "COMMENT", reasons |-> human.reasons]
        ELSE [event |-> "APPROVE", reasons |-> <<>>]

determine_review_event(sugg, files, stats, cfg) ==
    LET auto_approve == Get(cfg, "auto_approve_enabled", TRUE)
        critical == SelectSeq(sugg, IsCritical)
        human == needs_human_review(files, stats, sugg, cfg)
    IN  IF critical # <<>>
        THEN [event |-> "REQUEST_CHANGES",
              reasons |-> [i \in 1..Len(critical) |->
                  Reason("Critical", <<>>, Get(critical[i], "title", "unknown"), 0, {})]]
        ELSE IF ~auto_approve
        THEN [event |-> "COMMENT", reasons |-> <<SimpleReason("Auto-approval disabled")>>]
        ELSE IF human.needed
        THEN [event |-> "COMMENT", reasons |-> human.reasons]
        ELSE [event |-> "APPROVE", reasons |-> <<>>]


-----------------------------------------------------------------------------
(* Unified diff text                                                       *)
(*                                                                         *)
(* The diff is a sequence of blocks.  A block stands for `reps` consecutive*)
(* lines of one kind; the kind fixes the prefixes the parsers test:        *)
(*   "diffgit"  diff --git a/x b/x                                         *)
(*   "oldfile"  --- a/x              (starts with "-" and with "---")      *)
(*   "newfile"  +++ b/<path>                                               *)
(*   "devnull"  +++ /dev/null        (starts with "+++", not with "+++ b/")*)
(*   "hunk"     @@ -a,b +<n>,c @@                                          *)
(*   "add"      +text   "ctx"   text   "del"  -text                        *)
(*   "addhdr"   +++ b/<path>, being the added line "++ b/<path>" of a hunk *)
(*   "other"    index lines, "\ No newline at end of file", empty lines    *)

Line(kind, path, n, reps) == [kind |-> kind, path |-> path, n |-> n, reps |-> reps]

StartsWithPlus(l) == l.kind \in {"add", "newfile", "devnull", "addhdr"}
StartsWithPlus3(l) == l.kind \in {"newfile", "devnull", "addhdr"}
StartsWithPlus3B(l) == l.kind \in {"newfile", "addhdr"}
StartsWithMinus(l) == l.kind \in {"del", "oldfile"}
StartsWithMinus3(l) == l.kind = "oldfile"
StartsWithSpace(l) == l.kind = "ctx"

\* dict[key] = value on a dict modelled as a function
DictSet(d, key, value) ==
    [k \in (DOMAIN d) \cup {key} |-> IF k = key THEN value ELSE d[k]]

\* One iteration of the loop of get_diff_line_sets.  current_file is <<>>
\* for None and <<path>> otherwise.
LineSetsStep(st, l) ==
    IF l.kind = "diffgit"
    THEN [st EXCEPT !.current_file = <<>>]
    ELSE IF StartsWithPlus3B(l)
    THEN [st EXCEPT !.current_file = <<l.path>>,
                    !.line_sets = DictSet(st.line_sets, l.path, {})]
    ELSE IF l.kind = "hunk"
    THEN [st EXCEPT !.current_new_line = l.n - 1]
    ELSE IF st.current_file # <<>> /\ (StartsWithPlus(l) \/ StartsWithSpace(l))
    THEN LET f == st.current_file[1]
             old == Get(st.line_sets, f, {})
             new == (st.current_new_line + 1)..(st.current_new_line + l.reps)
         IN  [st EXCEPT !.current_new_line = st.current_new_line + l.reps,
                        !.line_sets = DictSet(st.line_sets, f, old \cup new)]
    ELSE st

RECURSIVE ScanLineSets(_, _)
ScanLineSets(lines, st) ==
    IF lines = <<>> THEN st
    ELSE ScanLineSets(Tail(lines), LineSetsStep(st, Head(lines)))

get_diff_line_sets(diff_text) ==
    ScanLineSets(diff_text,
        [line_sets |-> EmptyDict, current_file |-> <<>>, current_new_line |-> 0]).line_sets

\* One iteration of the loop of compute_diff_stats
DiffStatsStep(st, l, doc_extensions) ==
    IF StartsWithPlus3B(l)
    THEN [st EXCEPT !.files = st.files \cup {l.path},
                    !.current_is_doc = \E ext \in Elems(doc_extensions) : EndsWith(l.path, ext)]
    ELSE IF StartsWithPlus(l) /\ ~StartsWithPlus3(l)
    THEN [st EXCEPT !.lines_added = st.lines_added + l.reps,
                    !.code_lines_added =
                        IF st.current_is_doc THEN st.code_lines_added
                        ELSE st.code_lines_added + l.reps]
    ELSE IF StartsWithMinus(l) /\ ~StartsWithMinus3(l)
    THEN [st EXCEPT !.lines_removed = st.lines_removed + l.reps,
                    !.code_lines_removed =
                        IF st.current_is_doc THEN st.code_lines_removed
                        ELSE st.code_lines_removed + l.reps]
    ELSE st

RECURSIVE ScanDiffStats(_, _, _)
ScanDiffStats(lines, st, doc_extensions) ==
    IF lines = <<>> THEN st
    ELSE ScanDiffStats(Tail(lines), DiffStatsStep(st, Head(lines), doc_extensions),
                       doc_extensions)

compute_diff_stats(diff_text, cfg) ==
    LET doc_extensions == Get(cfg, "doc_extensions", DefaultDocExtensions)
        st == ScanDiffStats(diff_text,
                [files |-> {}, current_is_doc |-> FALSE,
                 lines_added |-> 0, lines_removed |-> 0,
                 code_lines_added |-> 0, code_lines_removed |-> 0],
                doc_extensions)
    IN  [files_changed |-> Cardinality(st.files),
         lines_added |-> st.lines_added,
         lines_removed |-> st.lines_removed,
         code_lines_added |-> st.code_lines_added,
         code_lines_removed |-> st.code_lines_removed]

\* range(1, 6) of find_closest_commentable_line
ClosestMaxOffset == 5

\* Faulty variant: range(1, 5)
find_closest_commentable_line_ShortRange(commentable_lines, target_line) ==
    LET hits == {o \in 1..(ClosestMaxOffset - 1) :
                    (target_line + o) \in commentable_lines
                    \/ (target_line - o) \in commentable_lines}
    IN  IF commentable_lines = {} THEN <<>>
        ELSE IF target_line \in commentable_lines THEN <<target_line>>
        ELSE IF hits = {} THEN <<>>
        ELSE LET o == MinOf(hits)
             IN  IF (target_line + o) \in commentable_lines
                 THEN <<target_line + o>>
                 ELSE <<target_line - o>>

\* The first hit of the loop over offsets 1..5, looking below (target +
\* offset) before above (target - offset).  <<>> stands for None.
find_closest_commentable_line(commentable_lines, target_line) ==
    LET hits == {o \in 1..ClosestMaxOffset :
                    (target_line + o) \in commentable_lines
                    \/ (target_line - o) \in commentable_lines}
    IN  IF commentable_lines = {} THEN <<>>
        ELSE IF target_line \in commentable_lines THEN <<target_line>>
        ELSE IF hits = {} THEN <<>>
        ELSE LET o == MinOf(hits)
             IN  IF (target_line + o) \in commentable_lines
                 THEN <<target_line + o>>
                 ELSE <<target_line - o>>

-----------------------------------------------------------------------------
(* Formatting *)

SummaryTag == "<!-- ai-review-agent-summary -->"
CommentTag == "<!-- ai-review-agent -->"
ReviewHeader == "## Code Review"

\* A comment body: the hidden marker it starts with ("" for none) and the
\* text after it.  jq's contains(tag) on a body is BodyContains.
Marked(tag, text) == [tag |-> tag, text |-> text]
BodyContains(body, tag) == body.tag = tag

\* "consider" is shown as "warning"
ShownSeverity(s) ==
    LET severity == Get(s, "severity", "suggestion")
    IN  IF severity = "consider" THEN "warning" ELSE severity

format_suggestion_body(s) ==
    [icon |-> IF ShownSeverity(s) \in {"critical", "warning", "suggestion", "praise"}
              THEN ShownSeverity(s) ELSE "suggestion",
     title |-> Get(s, "title", "Suggestion"),
     rule |-> Get(s, "rule", "")]

SeverityCount(sugg, sev) ==
    Cardinality({i \in 1..Len(sugg) : ShownSeverity(sugg[i]) = sev})

\* Faulty variant: the summary announces an approval whatever the verdict
build_summary_body_AlwaysApproved(sugg, ev, ev_reasons, unplaced) ==
    [header |-> ReviewHeader,
     verdict |-> "Auto-Approved",
     statement |-> IF sugg # <<>> THEN "No critical issues found. N suggestions"
                   ELSE "No issues found",
     n |-> Len(sugg),
     reasons |-> <<>>,
     counts |-> [sev \in {"critical", "warning", "suggestion", "praise"} |->
                    SeverityCount(sugg, sev)],
     unplaced |-> [i \in 1..Len(unplaced) |->
                    [file |-> Get(unplaced[i], "file", <<>>),
                     line |-> Get(unplaced[i], "line", 0),
                     formatted |-> format_suggestion_body(unplaced[i])]]]

build_summary_body(sugg, ev, ev_reasons, unplaced) ==
    [header |-> ReviewHeader,
     verdict |-> IF ev = "APPROVE" THEN "Auto-Approved"
                 ELSE IF ev = "REQUEST_CHANGES" THEN "Changes Requested"
                 ELSE "Human Review Required",
     statement |-> IF ev = "APPROVE"
                   THEN (IF sugg # <<>> THEN "No critical issues found. N suggestions"
                         ELSE "No issues found")
                   ELSE IF ev = "REQUEST_CHANGES" THEN "Found N critical issues"
                   ELSE "This PR requires human review",
     n |-> IF ev = "APPROVE" THEN Len(sugg)
           ELSE IF ev = "REQUEST_CHANGES" THEN SeverityCount(sugg, "critical")
           ELSE 0,
     reasons |-> IF ev \in {"APPROVE", "REQUEST_CHANGES"} THEN <<>> ELSE ev_reasons,
     counts |-> [sev \in {"critical", "warning", "suggestion", "praise"} |->
                    SeverityCount(sugg, sev)],
     unplaced |-> [i \in 1..Len(unplaced) |->
                    [file |-> Get(unplaced[i], "file", <<>>),
                     line |-> Get(unplaced[i], "line", 0),
                     formatted |-> format_suggestion_body(unplaced[i])]]]

-----------------------------------------------------------------------------
(* Step 1 of post_review_via_gh: placing the findings *)

\* Faulty variant: a finding is placed only on its own line
PlacementLine_ExactOnly(s, line_sets) ==
    LET file_path == Get(s, "file", <<>>)
        target_line == Get(s, "line", 0)
        commentable_lines == Get(line_sets, file_path, {})
    IN  IF target_line # 0 /\ target_line \in commentable_lines /\ file_path # <<>>
        THEN <<target_line>> ELSE <<>>

\* The line a finding is placed on: <<line>>, or <<>> when it stays unplaced
PlacementLine(s, line_sets) ==
    LET file_path == Get(s, "file", <<>>)
        target_line == Get(s, "line", 0)
        commentable_lines == Get(line_sets, file_path, {})
        line == IF target_line # 0
                THEN find_closest_commentable_line(commentable_lines, target_line)
                ELSE <<>>
    IN  IF line # <<>> /\ line[1] # 0 /\ file_path # <<>> THEN line ELSE <<>>

InlineComment(s, line_sets) ==
    [path |-> Get(s, "file", <<>>),
     line |-> PlacementLine(s, line_sets)[1],
     body |-> Marked(CommentTag, format_suggestion_body(s))]

BuildInlineComments(sugg, line_sets) ==
    LET placed == SelectSeq(sugg, LAMBDA s : PlacementLine(s, line_sets) # <<>>)
    IN  [i \in 1..Len(placed) |-> InlineComment(placed[i], line_sets)]

BuildUnplaced(sugg, line_sets) ==
    SelectSeq(sugg, LAMBDA s : PlacementLine(s, line_sets) = <<>>)

\* api_comments of post_review_via_gh
ApiComments(inline_comments) ==
    [i \in 1..Len(inline_comments) |->
        [path |-> inline_comments[i].path, line |-> inline_comments[i].line,
         side |-> "RIGHT", body |-> inline_comments[i].body]]

-----------------------------------------------------------------------------
(* Request payloads.  head_sha is <<>> for None and <<sha>> otherwise. *)

\* Faulty variant: the inline review carries the verdict
InlineReviewPayload_WithVerdict(head_sha, api_comments) ==
    IF head_sha # <<>>
    THEN [body |-> [header |-> ReviewHeader, text |-> "Inline comments from automated review.", detail |-> 0],
          event |-> event, comments |-> api_comments, commit_id |-> head_sha[1]]
    ELSE [body |-> [header |-> ReviewHeader, text |-> "Inline comments from automated review.", detail |-> 0],
          event |-> event, comments |-> api_comments]

\* Faulty variant: the payload always has a commit_id, empty without a SHA
InlineReviewPayload_AlwaysBound(head_sha, api_comments) ==
    [body |-> [header |-> ReviewHeader, text |-> "Inline comments from automated review.", detail |-> 0],
     event |-> "COMMENT", comments |-> api_comments,
     commit_id |-> IF head_sha # <<>> THEN head_sha[1] ELSE ""]

\* review_payload of _post_inline_comment_review
InlineReviewPayload(head_sha, api_comments) ==
    IF head_sha # <<>>
    THEN [body |-> [header |-> ReviewHeader, text |-> "Inline comments from automated review.", detail |-> 0],
          event |-> "COMMENT", comments |-> api_comments, commit_id |-> head_sha[1]]
    ELSE [body |-> [header |-> ReviewHeader, text |-> "Inline comments from automated review.", detail |-> 0],
          event |-> "COMMENT", comments |-> api_comments]

\* Faulty variant: the verdict review carries the inline comments of the run
VerdictReviewPayload_WithComments(head_sha, ev, inline_count) ==
    IF head_sha # <<>>
    THEN [body |-> [header |-> ReviewHeader, text |-> "See summary above for details.", detail |-> inline_count],
          event |-> ev, comments |-> ApiComments(run.inline_comments),
          commit_id |-> head_sha[1]]
    ELSE [body |-> [header |-> ReviewHeader, text |-> "See summary above for details.", detail |-> inline_count],
          event |-> ev, comments |-> ApiComments(run.inline_comments)]

\* review_payload of _post_verdict_review
VerdictReviewPayload(head_sha, ev, inline_count) ==
    IF head_sha # <<>>
    THEN [body |-> [header |-> ReviewHeader, text |-> "See summary above for details.", detail |-> inline_count],
          event |-> ev, commit_id |-> head_sha[1]]
    ELSE [body |-> [header |-> ReviewHeader, text |-> "See summary above for details.", detail |-> inline_count],
          event |-> ev]

\* payload of _post_individual_comment
IndividualCommentPayload(commit_id, comment) ==
    [commit_id |-> commit_id, path |-> comment.path, body |-> comment.body,
     line |-> comment.line, side |-> "RIGHT"]

-----------------------------------------------------------------------------
(* The hosting platform, as far as the publisher observes or changes it.   *)
(*   issue_comments   [id, body, by]                                       *)
(*   review_comments  [id, body, path, line, review, by]                   *)
(*   reviews          [id, state, body, kind, comments, minimized, by]     *)
(* `by` is the number of the publish run that created the item (0: a       *)
(* person); `kind` is the step that created a review; `comments` is the    *)
(* set of ids of the inline comments a review owns.  by and kind are not   *)
(* visible to the publisher.                                               *)

HumanBody == Marked("", "a person's comment")

\* select(.body | contains(tag)) | .id, in list order
IdsOf(items, tag) ==
    LET hit == SelectSeq(items, LAMBDA c : BodyContains(c.body, tag))
    IN  [i \in 1..Len(hit) |-> hit[i].id]

ReviewStateOf(ev) ==
    IF ev = "APPROVE" THEN "APPROVED"
    ELSE IF ev = "REQUEST_CHANGES" THEN "CHANGES_REQUESTED"
    ELSE "COMMENTED"

\* POST issues/{pr}/comments
HubCreateIssueComment(h, body, by) ==
    [h EXCEPT !.issue_comments = Append(@, [id |-> h.next_id, body |-> body, by |-> by]),
              !.next_id = @ + 1]

\* PATCH issues/comments/{id}
HubUpdateIssueComment(h, id, body) ==
    [h EXCEPT !.issue_comments =
        [i \in 1..Len(@) |-> IF @[i].id = id THEN [@[i] EXCEPT !.body = body] ELSE @[i]]]

\* POST pulls/{pr}/reviews: the review, and one review comment per entry of
\* the payload's comments field when it has one
HubCreateReview(h, payload, kind, by) ==
    LET rid == h.next_id
        cs == IF "comments" \in DOMAIN payload THEN payload.comments ELSE <<>>
        new == [i \in 1..Len(cs) |->
                   [id |-> rid + i, body |-> cs[i].body, path |-> cs[i].path,
                    line |-> cs[i].line, review |-> rid, by |-> by]]
    IN  [h EXCEPT !.reviews = Append(@,
                      [id |-> rid, state |-> ReviewStateOf(payload.event),
                       body |-> Marked(payload.body.header, payload.body.text), kind |-> kind,
                       comments |-> {rid + i : i \in 1..Len(cs)},
                       minimized |-> FALSE, by |-> by]),
                  !.review_comments = @ \o new,
                  !.next_id = rid + Len(cs) + 1]

\* A rejected review creation that leaves an undecided review behind
HubLeavePendingReview(h, by) ==
    [h EXCEPT !.reviews = Append(@,
                  [id |-> h.next_id, state |-> "PENDING",
                   body |-> Marked("", ""), kind |-> "pending",
                   comments |-> {}, minimized |-> FALSE, by |-> by]),
              !.next_id = @ + 1]

\* POST pulls/{pr}/comments
HubCreateReviewComment(h, payload, by) ==
    [h EXCEPT !.review_comments = Append(@,
                  [id |-> h.next_id, body |-> payload.body, path |-> payload.path,
                   line |-> payload.line, review |-> 0, by |-> by]),
              !.next_id = @ + 1]

\* DELETE pulls/comments/{id}: the comment goes, also from its review
HubDeleteReviewComment(h, id) ==
    [h EXCEPT !.review_comments = SelectSeq(@, LAMBDA c : c.id # id),
              !.reviews = [i \in 1..Len(@) |->
                              [@[i] EXCEPT !.comments = @ \ {id}]]]

\* DELETE pulls/{pr}/reviews/{id}
HubDeleteReview(h, id) ==
    [h EXCEPT !.reviews = SelectSeq(@, LAMBDA r : r.id # id)]

\* minimizeComment(subjectId, OUTDATED)
HubMinimize(h, id) ==
    [h EXCEPT !.reviews = [i \in 1..Len(@) |->
        IF @[i].id = id THEN [@[i] EXCEPT !.minimized = TRUE] ELSE @[i]]]

\* The pull request before the first publish run: one comment and one
\* inline comment written by a person
InitialHub ==
    [issue_comments |-> <<[id |-> 1, body |-> HumanBody, by |-> 0]>>,
     review_comments |-> <<[id |-> 2, body |-> HumanBody, path |-> P_src_a_py,
                            line |-> 10, review |-> 0, by |-> 0]>>,
     reviews |-> <<>>,
     next_id |-> 3]

-----------------------------------------------------------------------------
(* Round budget of the agent loop *)

MAX_TOOL_ROUNDS_CEILING == 30
RoundsBase == 10
RoundsPerFile == 2

\* Faulty variant: the ceiling is not applied
compute_max_tool_rounds_NoCeiling(n) ==
    LET dynamic == RoundsBase + n * RoundsPerFile
    IN  Max2(dynamic, RoundsBase)

compute_max_tool_rounds(n) ==
    LET dynamic == RoundsBase + n * RoundsPerFile
    IN  Min2(Max2(dynamic, RoundsBase), MAX_TOOL_ROUNDS_CEILING)

-----------------------------------------------------------------------------
(* Inputs the model draws from *)

FCritical == [severity |-> "critical", title |-> "Bug", file |-> P_src_a_py, line |-> 42]
FCriticalNoTitle == [severity |-> "critical", file |-> P_src_a_py, line |-> 10]
FWarningFar == [severity |-> "warning", title |-> "Missing check", file |-> P_src_a_py, line |-> 300]
FSuggestion == [severity |-> "suggestion", title |-> "Tip", file |-> P_src_a_py, line |-> 10]
FPraiseNoFile == [severity |-> "praise", title |-> "Nice"]

RiskFindingPool == {FCritical, FCriticalNoTitle, FWarningFar, FSuggestion}

RiskPathPool == {P_README_md, P_alembic_init, P_src_a_py, P_auth_login_py,
                 P_Dockerfile, P_requirements_txt, P_docs_guide_md}

StatsEmpty == EmptyDict
StatsSmallCode == [lines_added |-> 2, lines_removed |-> 1,
                   code_lines_added |-> 2, code_lines_removed |-> 1]
StatsBigCode == [lines_added |-> 1001, lines_removed |-> 0,
                 code_lines_added |-> 1001, code_lines_removed |-> 0]
StatsBigDocOnly == [lines_added |-> 1001, lines_removed |-> 0,
                    code_lines_added |-> 0, code_lines_removed |-> 0]
StatsLegacyKeys == [lines_added |-> 600, lines_removed |-> 600]

StatsPool == {StatsEmpty, StatsSmallCode, StatsBigCode, StatsBigDocOnly, StatsLegacyKeys}

CfgEmpty == EmptyDict
CfgAutoOn == [auto_approve_enabled |-> TRUE]
CfgAutoOff == [auto_approve_enabled |-> FALSE]
CfgCustom == [auto_approve_enabled |-> TRUE,
              max_code_files |-> 1,
              max_code_lines |-> 2,
              cross_cutting_domains |-> 2,
              domain_paths |-> << [path |-> F_src, domain |-> "backend"],
                                  [path |-> F_auth, domain |-> "backend"],
                                  [path |-> F_docs, domain |-> "docs"] >>]

ConfigPool == {CfgEmpty, CfgAutoOn, CfgAutoOff, CfgCustom}

-----------------------------------------------------------------------------
(* Values of the variables a specification does not use *)

\* Locals of post_review_via_gh before step 1 has run
IdleRun ==
    [inline_comments |-> <<>>, unplaced |-> <<>>, node_ids |-> <<>>,
     minimized |-> 0, i |-> 0, existing |-> <<>>, head_sha |-> <<>>,
     \* rc of the batch request of _post_inline_comment_review, once made
     inline_rc |-> <<>>]

RiskVars == <<config, changed_files, diff_stats, suggestions>>
PublishState == <<run, hub, writes, runNo, fails, repo, diff, gh_calls>>
RoundVars == <<num_changed_files, max_rounds>>

PublishIdle ==
    /\ run = IdleRun
    /\ hub = InitialHub
    /\ writes = <<>>
    /\ runNo = 0
    /\ fails = 0
    /\ repo = FALSE
    /\ diff = <<>>
    /\ gh_calls = 0

RoundsIdle ==
    /\ num_changed_files = 0
    /\ max_rounds = 0

\* live_review, the diff scanner and the coverage check are not running
NotStarted == [pc |-> "idle"]

ReviewVars == <<agent, twin, scan, cov, prox, tool>>

ReviewIdle ==
    /\ agent = NotStarted
    /\ twin = NotStarted
    /\ scan = NotStarted
    /\ cov = NotStarted
    /\ prox = NotStarted
    /\ tool = NotStarted

-----------------------------------------------------------------------------
(* Specification of the risk engine: determine_review_event applied to     *)
(* every combination of inputs within the bounds                           *)

InitRisk ==
    /\ pc = "risk_input"
    /\ config \in ConfigPool
    /\ changed_files \in SeqsUpTo(RiskPathPool, MaxFiles)
    /\ diff_stats \in StatsPool
    /\ suggestions \in SeqsUpTo(RiskFindingPool, MaxFindings)
    /\ event = "None"
    /\ event_reasons = <<>>
    /\ PublishIdle
    /\ RoundsIdle
    /\ ReviewIdle

DecideReviewEvent ==
    /\ pc = "risk_input"
    /\ LET verdict == determine_review_event(suggestions, changed_files, diff_stats, config)
       IN  /\ event' = verdict.event
           /\ event_reasons' = verdict.reasons
    /\ pc' = "risk_decided"
    /\ UNCHANGED <<RiskVars, PublishState, RoundVars, ReviewVars>>

NextRisk == DecideReviewEvent

SpecRisk == InitRisk /\ [][NextRisk]_vars

-----------------------------------------------------------------------------
(* Specification of the round budget *)

InitRounds ==
    /\ pc = "rounds_input"
    /\ num_changed_files \in 0..MaxChangedFiles
    /\ max_rounds = 0
    /\ config = CfgEmpty
    /\ changed_files = <<>>
    /\ diff_stats = StatsEmpty
    /\ suggestions = <<>>
    /\ event = "None"
    /\ event_reasons = <<>>
    /\ PublishIdle
    /\ ReviewIdle

ComputeRounds ==
    /\ pc = "rounds_input"
    /\ max_rounds' = compute_max_tool_rounds(num_changed_files)
    /\ pc' = "rounds_computed"
    /\ UNCHANGED <<num_changed_files, RiskVars, PublishState, event, event_reasons, ReviewVars>>

NextRounds == ComputeRounds

SpecRounds == InitRounds /\ [][NextRounds]_vars

-----------------------------------------------------------------------------
(* Specification of publishing: main() of post-review.py calling           *)
(* post_review_via_gh, one action per step of the sequence, against a      *)
(* hosting API whose calls may fail (rc != 0)                               *)

MAX_CLEANUP_OPS == 20

DiffSrcA ==
    << Line("diffgit", <<>>, 0, 1), Line("oldfile", <<>>, 0, 1),
       Line("newfile", P_src_a_py, 0, 1),
       Line("hunk", <<>>, 8, 1), Line("ctx", <<>>, 0, 3), Line("add", <<>>, 0, 2),
       Line("del", <<>>, 0, 1), Line("ctx", <<>>, 0, 1),
       Line("hunk", <<>>, 40, 1), Line("add", <<>>, 0, 1) >>
DiffReadmeSmall ==
    << Line("diffgit", <<>>, 0, 1), Line("oldfile", <<>>, 0, 1),
       Line("newfile", P_README_md, 0, 1),
       Line("hunk", <<>>, 1, 1), Line("add", <<>>, 0, 2), Line("ctx", <<>>, 0, 1) >>
DiffReadmeBig ==
    << Line("diffgit", <<>>, 0, 1), Line("oldfile", <<>>, 0, 1),
       Line("newfile", P_README_md, 0, 1),
       Line("hunk", <<>>, 1, 1), Line("add", <<>>, 0, 1001) >>

PublishScenarios ==
    { [diff |-> DiffSrcA, files |-> <<P_src_a_py>>],
      [diff |-> DiffReadmeSmall, files |-> <<P_README_md>>],
      [diff |-> DiffReadmeBig, files |-> <<P_README_md>>] }

PublishFindingPool == {FCritical, FSuggestion, FWarningFar}

\* Findings without a file, or with line 0
FWarningNoLine == [severity |-> "warning", title |-> "Naming", file |-> P_src_a_py, line |-> 0]
FSuggestionNoFile == [severity |-> "suggestion", title |-> "Tip", file |-> <<>>, line |-> 10]
PublishMoreFindings ==
    { <<FPraiseNoFile>>, <<FWarningNoLine, FCritical>>, <<FSuggestion, FSuggestionNoFile>> }
PublishConfigPool == {CfgEmpty, CfgAutoOff}

InitPublish ==
    /\ pc = "main"
    /\ \E sc \in PublishScenarios :
          /\ diff = sc.diff
          /\ changed_files = sc.files
    /\ suggestions \in SeqsUpTo(PublishFindingPool, MaxFindings) \cup PublishMoreFindings
    /\ config \in PublishConfigPool
    /\ repo \in BOOLEAN
    /\ diff_stats = EmptyDict
    /\ event = "None"
    /\ event_reasons = <<>>
    /\ run = IdleRun
    /\ hub = InitialHub
    /\ writes = <<>>
    /\ runNo = 0
    /\ fails = 0
    /\ gh_calls = 0
    /\ RoundsIdle
    /\ ReviewIdle

PublishInputs == <<config, diff, changed_files, suggestions, repo>>

\* Outcomes a hosting-API call can have once `failed` calls have failed
ApiOutcomes(failed) == IF failed < MaxFailures THEN {TRUE, FALSE} ELSE {TRUE}
Cost(ok) == IF ok THEN 0 ELSE 1

\* A write request of the current run
Write(op, kind, payload) == [op |-> op, kind |-> kind, payload |-> payload]

\* Faulty variant: publishing goes on without a repository identifier
NoRepository_Ignored(repository) == FALSE

\* `if not repo:` of post_review_via_gh, repo being whether
\* GITHUB_REPOSITORY is set to a non-empty value
NoRepository(repository) == ~repository

\* main() up to the call, then post_review_via_gh up to step 1: the
\* verdict, the early return without a repository, the placement
Main ==
    /\ pc = "main"
    /\ LET stats == compute_diff_stats(diff, config)
           verdict == determine_review_event(suggestions, changed_files, stats, config)
           line_sets == get_diff_line_sets(diff)
       IN  /\ diff_stats' = stats
           /\ event' = verdict.event
           /\ event_reasons' = verdict.reasons
           /\ run' = IF ~NoRepository(repo)
                     THEN [IdleRun EXCEPT
                             !.inline_comments = BuildInlineComments(suggestions, line_sets),
                             !.unplaced = BuildUnplaced(suggestions, line_sets)]
                     ELSE IdleRun
    /\ pc' = IF NoRepository(repo) THEN "done" ELSE "minimize"
    /\ runNo' = runNo + 1
    /\ writes' = <<>>
    /\ gh_calls' = 0
    /\ UNCHANGED <<PublishInputs, hub, fails, RoundVars, ReviewVars>>

\* Step 2, the listing of _minimize_old_reviews
MinimizeList ==
    /\ pc = "minimize"
    /\ \E ok \in ApiOutcomes(fails) :
          LET node_ids == IF ok THEN IdsOf(hub.reviews, ReviewHeader) ELSE <<>>
          IN  /\ run' = [run EXCEPT !.node_ids = node_ids, !.minimized = 0, !.i = 1]
              /\ pc' = IF node_ids = <<>> THEN "upsert" ELSE "minimize_each"
              /\ fails' = fails + Cost(ok)
    /\ gh_calls' = gh_calls + 1
    /\ UNCHANGED <<PublishInputs, diff_stats, event, event_reasons, hub, writes, runNo, RoundVars, ReviewVars>>

\* Step 2, one iteration of the loop of _minimize_old_reviews
MinimizeEach ==
    /\ pc = "minimize_each"
    /\ IF run.minimized >= MAX_CLEANUP_OPS
       THEN /\ pc' = "upsert"
            /\ UNCHANGED <<run, hub, writes, fails, gh_calls>>
       ELSE \E ok \in ApiOutcomes(fails) :
              /\ gh_calls' = gh_calls + 1
              /\ hub' = IF ok THEN HubMinimize(hub, run.node_ids[run.i]) ELSE hub
              /\ writes' = Append(writes, Write("minimize", "cleanup", [id |-> run.node_ids[run.i]]))
              /\ run' = [run EXCEPT !.minimized = @ + (1 - Cost(ok)), !.i = @ + 1]
              /\ pc' = IF run.i = Len(run.node_ids) THEN "upsert" ELSE "minimize_each"
              /\ fails' = fails + Cost(ok)
    /\ UNCHANGED <<PublishInputs, diff_stats, event, event_reasons, runNo, RoundVars, ReviewVars>>

\* Faulty variant: the lookup never finds the summary comment
find_summary_comment_Never(h, ok) == <<>>

\* _find_summary_comment: <<id>> of the first marked comment, <<>> for None
find_summary_comment(h, ok) ==
    LET ids == IdsOf(h.issue_comments, SummaryTag)
    IN  IF ok /\ ids # <<>> THEN <<ids[1]>> ELSE <<>>

\* Step 3: build_summary_body and _upsert_summary_comment
UpsertSummary ==
    /\ pc = "upsert"
    /\ \E okFind \in ApiOutcomes(fails) :
       \E okWrite \in ApiOutcomes(fails + Cost(okFind)) :
          LET summary_body == build_summary_body(suggestions, event, event_reasons, run.unplaced)
              marked_body == Marked(SummaryTag, summary_body)
              existing_id == find_summary_comment(hub, okFind)
          IN  /\ IF existing_id # <<>>
                 THEN /\ writes' = Append(writes,
                            Write("update_issue_comment", "summary",
                                  [id |-> existing_id[1], body |-> marked_body]))
                      /\ hub' = IF okWrite
                                THEN HubUpdateIssueComment(hub, existing_id[1], marked_body)
                                ELSE hub
                 ELSE /\ writes' = Append(writes,
                            Write("create_issue_comment", "summary", [body |-> marked_body]))
                      /\ hub' = IF okWrite
                                THEN HubCreateIssueComment(hub, marked_body, runNo)
                                ELSE hub
              /\ fails' = fails + Cost(okFind) + Cost(okWrite)
    /\ gh_calls' = gh_calls + 2
    /\ pc' = "list_existing"
    /\ UNCHANGED <<PublishInputs, diff_stats, event, event_reasons, run, runNo, RoundVars, ReviewVars>>

\* Faulty variant: no old inline comment is listed
list_existing_review_comments_None(h, ok) == <<>>

\* _list_existing_review_comments: the ids of the marked review comments
list_existing_review_comments(h, ok) ==
    IF ok THEN IdsOf(h.review_comments, CommentTag) ELSE <<>>

\* Step 4, the listing
ListExisting ==
    /\ pc = "list_existing"
    /\ \E ok \in ApiOutcomes(fails) :
          LET existing_comments == list_existing_review_comments(hub, ok)
          IN  /\ run' = [run EXCEPT !.existing = existing_comments, !.i = 1]
              /\ pc' = IF existing_comments = <<>> THEN "delete_pending" ELSE "delete_each"
              /\ fails' = fails + Cost(ok)
    /\ gh_calls' = gh_calls + 1
    /\ UNCHANGED <<PublishInputs, diff_stats, event, event_reasons, hub, writes, runNo, RoundVars, ReviewVars>>

\* Step 4, one iteration of the deletion loop (_delete_review_comment)
DeleteEach ==
    /\ pc = "delete_each"
    /\ \E ok \in ApiOutcomes(fails) :
          /\ hub' = IF ok THEN HubDeleteReviewComment(hub, run.existing[run.i]) ELSE hub
          /\ writes' = Append(writes,
                Write("delete_review_comment", "cleanup", [id |-> run.existing[run.i]]))
          /\ fails' = fails + Cost(ok)
    /\ gh_calls' = gh_calls + 1
    /\ run' = [run EXCEPT !.i = @ + 1]
    /\ pc' = IF run.i = Len(run.existing) THEN "delete_pending" ELSE "delete_each"
    /\ UNCHANGED <<PublishInputs, diff_stats, event, event_reasons, runNo, RoundVars, ReviewVars>>

\* _delete_pending_review, continuing at `next`
delete_pending_review(next) ==
    /\ \E okList \in ApiOutcomes(fails) :
       \E okDelete \in ApiOutcomes(fails + Cost(okList)) :
          LET pending == SelectSeq(hub.reviews, LAMBDA r : r.state = "PENDING")
              review_id == IF okList /\ pending # <<>> THEN <<pending[1].id>> ELSE <<>>
          IN  IF review_id # <<>>
              THEN /\ writes' = Append(writes,
                         Write("delete_review", "cleanup", [id |-> review_id[1]]))
                   /\ hub' = IF okDelete THEN HubDeleteReview(hub, review_id[1]) ELSE hub
                   /\ fails' = fails + Cost(okList) + Cost(okDelete)
                   /\ gh_calls' = gh_calls + 2
              ELSE /\ okDelete
                   /\ fails' = fails + Cost(okList)
                   /\ gh_calls' = gh_calls + 1
                   /\ UNCHANGED <<hub, writes>>
    /\ pc' = next

\* Step 5, the leftover pending review
DeletePending ==
    /\ pc = "delete_pending"
    /\ delete_pending_review("head")
    /\ UNCHANGED <<PublishInputs, diff_stats, event, event_reasons, run, runNo, RoundVars, ReviewVars>>

\* _get_head_commit, and the test whether there is anything to post inline
GetHeadCommit ==
    /\ pc = "head"
    /\ \E ok \in ApiOutcomes(fails) :
          /\ run' = [run EXCEPT !.head_sha = IF ok THEN <<"abc123">> ELSE <<>>]
          /\ fails' = fails + Cost(ok)
    /\ gh_calls' = gh_calls + 1
    /\ pc' = IF ApiComments(run.inline_comments) # <<>> THEN "inline" ELSE "verdict"
    /\ UNCHANGED <<PublishInputs, diff_stats, event, event_reasons, hub, writes, runNo, RoundVars, ReviewVars>>

\* _post_inline_comment_review up to the outcome of the batch request; a
\* rejected batch may or may not leave a pending review behind
PostInlineBatch ==
    /\ pc = "inline"
    /\ LET payload == InlineReviewPayload(run.head_sha, ApiComments(run.inline_comments))
       IN  /\ writes' = Append(writes, Write("create_review", "inline", payload))
           /\ \E ok \in ApiOutcomes(fails) :
                 /\ fails' = fails + Cost(ok)
                 /\ run' = [run EXCEPT !.inline_rc = <<Cost(ok)>>]
                 /\ IF ok
                    THEN /\ hub' = HubCreateReview(hub, payload, "inline", runNo)
                         /\ pc' = "verdict"
                    ELSE /\ hub' \in {hub, HubLeavePendingReview(hub, runNo)}
                         /\ pc' = "fallback"
    /\ gh_calls' = gh_calls + 1
    /\ UNCHANGED <<PublishInputs, diff_stats, event, event_reasons, runNo, RoundVars, ReviewVars>>

\* Faulty variant: without a head SHA the publisher stops instead of going on
AfterFallbackCleanup_Abort(head_sha) ==
    IF head_sha = <<>> THEN "done" ELSE "individual"

\* Where the fallback goes after deleting the pending review
AfterFallbackCleanup(head_sha) ==
    IF head_sha = <<>> THEN "verdict" ELSE "individual"

\* The fallback of _post_inline_comment_review: the pending review is
\* deleted; without a head SHA nothing more is posted inline
FallbackCleanup ==
    /\ pc = "fallback"
    /\ delete_pending_review(AfterFallbackCleanup(run.head_sha))
    /\ run' = [run EXCEPT !.i = 1]
    /\ UNCHANGED <<PublishInputs, diff_stats, event, event_reasons, runNo, RoundVars, ReviewVars>>

\* One iteration of the fallback loop (_post_individual_comment)
PostIndividual ==
    /\ pc = "individual"
    /\ LET comment == ApiComments(run.inline_comments)[run.i]
           payload == IndividualCommentPayload(run.head_sha[1], comment)
       IN  /\ writes' = Append(writes, Write("create_review_comment", "inline", payload))
           /\ \E ok \in ApiOutcomes(fails) :
                 /\ hub' = IF ok THEN HubCreateReviewComment(hub, payload, runNo) ELSE hub
                 /\ fails' = fails + Cost(ok)
    /\ gh_calls' = gh_calls + 1
    /\ run' = [run EXCEPT !.i = @ + 1]
    /\ pc' = IF run.i = Len(run.inline_comments) THEN "verdict" ELSE "individual"
    /\ UNCHANGED <<PublishInputs, diff_stats, event, event_reasons, runNo, RoundVars, ReviewVars>>

\* _post_verdict_review
PostVerdict ==
    /\ pc = "verdict"
    /\ LET payload == VerdictReviewPayload(run.head_sha, event,
                                           Len(ApiComments(run.inline_comments)))
       IN  /\ writes' = Append(writes, Write("create_review", "verdict", payload))
           /\ \E ok \in ApiOutcomes(fails) :
                 /\ hub' = IF ok THEN HubCreateReview(hub, payload, "verdict", runNo) ELSE hub
                 /\ fails' = fails + Cost(ok)
    /\ gh_calls' = gh_calls + 1
    /\ pc' = "done"
    /\ UNCHANGED <<PublishInputs, diff_stats, event, event_reasons, run, runNo, RoundVars, ReviewVars>>

\* The workflow runs again on the same pull request, findings and diff
Rerun ==
    /\ pc = "done"
    /\ runNo < MaxRuns
    /\ pc' = "main"
    /\ UNCHANGED <<PublishInputs, diff_stats, event, event_reasons, run, hub, writes,
                   runNo, fails, gh_calls, RoundVars, ReviewVars>>

NextPublish ==
    \/ Main
    \/ MinimizeList
    \/ MinimizeEach
    \/ UpsertSummary
    \/ ListExisting
    \/ DeleteEach
    \/ DeletePending
    \/ GetHeadCommit
    \/ PostInlineBatch
    \/ FallbackCleanup
    \/ PostIndividual
    \/ PostVerdict
    \/ Rerun

SpecPublish == InitPublish /\ [][NextPublish]_vars

-----------------------------------------------------------------------------
(* Properties of the risk engine (SpecRisk) *)

RiskDecided == pc = "risk_decided"

\* Positions of the critical findings, and the position of the k-th of them
CriticalPositions ==
    {i \in 1..Len(suggestions) : Get(suggestions[i], "severity", "None") = "critical"}
KthCritical(k) ==
    CHOOSE i \in CriticalPositions :
        Cardinality({j \in CriticalPositions : j <= i}) = k

AutoApproveOn == Get(config, "auto_approve_enabled", TRUE)
StructuralTrips == has_structural_risk(changed_files, config).risky
SecurityTrips == has_security_risk(changed_files, config).risky
ComplexityTrips == has_complexity_risk(changed_files, diff_stats, suggestions, config).risky
AnyCheckTrips == StructuralTrips \/ SecurityTrips \/ ComplexityTrips

\* C5: with at least one critical finding the verdict is REQUEST_CHANGES,
\* whatever the auto-approve flag and the risk checks say, and the reasons
\* are one "Critical" entry per critical finding, in finding order, each
\* carrying that finding's title.
C5_CriticalBlocks ==
    (RiskDecided /\ CriticalPositions # {}) =>
        /\ event = "REQUEST_CHANGES"
        /\ Len(event_reasons) = Cardinality(CriticalPositions)
        /\ \A k \in 1..Len(event_reasons) :
              /\ event_reasons[k].kind = "Critical"
              /\ "title" \in DOMAIN suggestions[KthCritical(k)] =>
                    event_reasons[k].title = suggestions[KthCritical(k)].title

\* C5 witness: a decided run with a critical finding behind a non-critical
\* one, auto-approval disabled and a structural risk present.
C5_Witness ==
    /\ RiskDecided
    /\ Len(suggestions) = 2
    /\ suggestions[1] = FSuggestion
    /\ suggestions[2] = FCritical
    /\ ~AutoApproveOn
    /\ StructuralTrips
    /\ event = "REQUEST_CHANGES"

\* C6: the verdict is APPROVE exactly when no finding is critical,
\* auto-approval is enabled and none of the three risk checks trips; with
\* auto-approval disabled and no critical finding it is COMMENT with the
\* single reason "Auto-approval disabled", whatever the risk checks say.
C6_ApproveIff ==
    RiskDecided =>
        /\ (event = "APPROVE") <=>
              (CriticalPositions = {} /\ AutoApproveOn /\ ~AnyCheckTrips)
        /\ (CriticalPositions = {} /\ ~AutoApproveOn) =>
              /\ event = "COMMENT"
              /\ event_reasons = <<SimpleReason("Auto-approval disabled")>>

\* C6 witness: auto-approval disabled, no critical finding, a risk check
\* that would trip, and the verdict COMMENT.
C6_Witness ==
    /\ RiskDecided
    /\ CriticalPositions = {}
    /\ ~AutoApproveOn
    /\ AnyCheckTrips
    /\ event = "COMMENT"

\* C7: the event is one of the three verdicts; REQUEST_CHANGES only with a
\* critical finding; reasons are non-empty unless the event is APPROVE, and
\* empty when it is APPROVE.
C7_VerdictWellFormed ==
    RiskDecided =>
        /\ event \in {"APPROVE", "REQUEST_CHANGES", "COMMENT"}
        /\ (event = "REQUEST_CHANGES") => CriticalPositions # {}
        /\ (event # "APPROVE") => event_reasons # <<>>
        /\ (event = "APPROVE") => event_reasons = <<>>

\* C7 witness: an approval, decided with findings present.
C7_Witness ==
    /\ RiskDecided
    /\ event = "APPROVE"
    /\ suggestions # <<>>
    /\ changed_files # <<>>

\* The reasons of the checks that trip, in the order structural, security,
\* complexity
AccumulatedReasons ==
    (IF StructuralTrips
        THEN <<has_structural_risk(changed_files, config).reason>> ELSE <<>>)
    \o (IF SecurityTrips
        THEN <<has_security_risk(changed_files, config).reason>> ELSE <<>>)
    \o (IF ComplexityTrips
        THEN <<has_complexity_risk(changed_files, diff_stats, suggestions, config).reason>>
        ELSE <<>>)

\* C8: without a critical finding and with auto-approval enabled, a tripped
\* check gives COMMENT with the reasons of every tripped check in the order
\* structural, security, complexity; a lone alembic/versions/001_init.py
\* with no findings gives COMMENT with a structural reason.
C8_AccumulatedReasons ==
    /\ (RiskDecided /\ CriticalPositions = {} /\ AutoApproveOn /\ AnyCheckTrips) =>
          /\ event = "COMMENT"
          /\ event_reasons = AccumulatedReasons
    /\ (RiskDecided /\ changed_files = <<P_alembic_init>> /\ suggestions = <<>>
            /\ AutoApproveOn) =>
          /\ event = "COMMENT"
          /\ \E i \in 1..Len(event_reasons) : event_reasons[i].kind = "Structural risk"

\* C8 witness: all three checks trip and all three reasons are reported.
C8_Witness ==
    /\ RiskDecided
    /\ CriticalPositions = {}
    /\ AutoApproveOn
    /\ StructuralTrips /\ SecurityTrips /\ ComplexityTrips
    /\ Len(event_reasons) = 3

-----------------------------------------------------------------------------
(* Properties of the round budget (SpecRounds) *)

RoundsComputed == pc = "rounds_computed"

\* The clamp, written out by cases
ClampedRounds(n) == IF n >= 10 THEN 30 ELSE 10 + 2 * n

\* C10: for n >= 0 the budget is min(max(10 + 2n, 10), 30): never below 10,
\* never above 30, non-decreasing in n, and 10, 20, 30 for n = 0, 5, 100.
C10_RoundBudget ==
    RoundsComputed =>
        /\ max_rounds = ClampedRounds(num_changed_files)
        /\ max_rounds >= 10
        /\ max_rounds <= 30
        /\ \A m \in 0..num_changed_files : compute_max_tool_rounds(m) <= max_rounds
        /\ (num_changed_files = 0) => max_rounds = 10
        /\ (num_changed_files = 5) => max_rounds = 20
        /\ (num_changed_files = 100) => max_rounds = 30

\* C10 witness: the budget of a 100-file change has been computed.
C10_Witness ==
    /\ RoundsComputed
    /\ num_changed_files = 100
    /\ max_rounds = 30

-----------------------------------------------------------------------------
(* Properties of publishing (SpecPublish) *)

PublishDone == pc = "done" /\ repo

WriteIndices(kind) == {i \in 1..Len(writes) : writes[i].kind = kind}
ReviewPosts == {i \in 1..Len(writes) : writes[i].op = "create_review"}

VerdictReviews(h) == {r \in Elems(h.reviews) : r.kind = "verdict"}
BotInlineComments(h) ==
    SelectSeq(h.review_comments, LAMBDA c : BodyContains(c.body, CommentTag))

\* One step seen from the verdict review: no verdict request of the run
\* has a comments field, no verdict review owns an inline comment, and a
\* step that removes or adds inline comments leaves every verdict review
\* as it was.
C1_Step ==
    /\ \A i \in 1..Len(writes') :
          writes'[i].kind = "verdict" => "comments" \notin DOMAIN writes'[i].payload
    /\ \A r \in VerdictReviews(hub') :
          /\ r.comments = {}
          /\ \A c \in Elems(hub'.review_comments) : c.review # r.id
    /\ (hub'.review_comments # hub.review_comments) =>
          \A r \in VerdictReviews(hub) : r \in VerdictReviews(hub')

\* C1: for every verdict event, every inline-comment count and with or
\* without a head SHA, the verdict review payload has no 'comments' field;
\* the verdict review owns no inline comment, and deleting (or otherwise
\* changing) inline comment threads leaves the verdict review unchanged.
C1_VerdictHasNoComments == [][C1_Step]_vars

\* C1 witness: the second run has deleted the inline comments of the first
\* while the first run's approval, posted with inline comments counted in
\* its body, is still there.
C1_Witness ==
    /\ runNo = 2
    /\ pc = "delete_pending"
    /\ run.existing # <<>>
    /\ \E r \in VerdictReviews(hub) :
          r.by = 1 /\ r.state = "APPROVED"
    /\ \A c \in Elems(hub.review_comments) : c.by # 1
    /\ \E i \in 1..Len(run.existing) : run.existing[i] > 2

\* C2: the batch inline-comment review is always requested with event
\* COMMENT, whatever the verdict of the run.
C2_InlineAlwaysComment ==
    /\ \A i \in WriteIndices("inline") :
          writes[i].op = "create_review" => writes[i].payload.event = "COMMENT"
    /\ \A r \in Elems(hub.reviews) : r.kind = "inline" => r.state = "COMMENTED"

\* C2 witness: an inline review was requested in a run whose verdict is
\* REQUEST_CHANGES.
C2_Witness ==
    /\ event = "REQUEST_CHANGES"
    /\ \E i \in WriteIndices("inline") : writes[i].op = "create_review"
    /\ \E r \in Elems(hub.reviews) : r.kind = "inline" /\ r.by = runNo

\* The run can take its next step: it is at a step of the sequence, and a
\* loop is at an element of its list
StepReady ==
    /\ pc \in {"main", "minimize", "minimize_each", "upsert", "list_existing",
               "delete_each", "delete_pending", "head", "inline", "fallback",
               "individual", "verdict"}
    /\ (pc = "minimize_each") => run.i \in 1..Len(run.node_ids)
    /\ (pc = "delete_each") => run.i \in 1..Len(run.existing)
    /\ (pc = "individual") =>
          run.i \in 1..Len(run.inline_comments) /\ run.head_sha # <<>>
    /\ (pc = "inline") => run.inline_comments # <<>>

\* C3: a run with a repository identifier ends with exactly one verdict
\* review request, its last write, carrying the event of
\* determine_review_event, whatever failed before; it issues two review
\* creation requests when a comment was placed and one otherwise; and no
\* failure stops the run before that.
C3_OneVerdictLast ==
    /\ PublishDone =>
          /\ WriteIndices("verdict") = {Len(writes)}
          /\ writes[Len(writes)].op = "create_review"
          /\ writes[Len(writes)].payload.event =
                determine_review_event(suggestions, changed_files,
                    compute_diff_stats(diff, config), config).event
          /\ Cardinality(ReviewPosts) = IF run.inline_comments # <<>> THEN 2 ELSE 1
    /\ (repo /\ pc # "done") => StepReady

\* C3 witness: a finished run in which the batch review and a later call
\* failed and comments were posted individually.
C3_Witness ==
    /\ PublishDone
    /\ runNo = 1
    /\ fails = 2
    /\ \E i \in 1..Len(writes) : writes[i].op = "create_review_comment"
    /\ Cardinality(ReviewPosts) = 2

\* C4: after a second (or later) run over the same findings and diff, with
\* no hosting-API call having failed, there is exactly one summary comment
\* carrying the marker, and the bot-marked inline comments are exactly the
\* ones this run posted, one per placed finding.
C4_Idempotent ==
    (PublishDone /\ runNo >= 2 /\ fails = 0) =>
        /\ Len(IdsOf(hub.issue_comments, SummaryTag)) = 1
        /\ LET bot == BotInlineComments(hub)
           IN  /\ \A i \in 1..Len(bot) : bot[i].by = runNo
               /\ [i \in 1..Len(bot) |->
                      [path |-> bot[i].path, line |-> bot[i].line, body |-> bot[i].body]]
                  = run.inline_comments

\* C4 witness: a second run has finished without failures, has updated the
\* summary in place and has posted inline comments.
C4_Witness ==
    /\ PublishDone
    /\ runNo = 2
    /\ fails = 0
    /\ Len(run.inline_comments) = 2
    /\ \E i \in 1..Len(writes) : writes[i].op = "update_issue_comment"

DiffTouchesOnly(path) ==
    \A l \in Elems(diff) : l.kind = "newfile" => l.path = path

SummaryWrites == WriteIndices("summary")

\* C9: a diff touching only README.md, with no findings and auto-approval
\* enabled, is approved, gets no inline-comment review, and gets one
\* summary upsert whose body says that no issues were found.
C9_ReadmeOnlyApproved ==
    (PublishDone /\ changed_files = <<P_README_md>> /\ DiffTouchesOnly(P_README_md)
        /\ suggestions = <<>> /\ AutoApproveOn) =>
        /\ event = "APPROVE"
        /\ WriteIndices("inline") = {}
        /\ Cardinality(SummaryWrites) = 1
        /\ \A i \in SummaryWrites :
              writes[i].payload.body.text.statement = "No issues found"

-----------------------------------------------------------------------------
(* File coverage (scripts/llm-review.py) *)

P_src_b_py == <<"s", "r", "c", "/", "b", ".", "p", "y">>
P_src_c_py == <<"s", "r", "c", "/", "c", ".", "p", "y">>
P_docs_dot_md == <<"d", "o", "c", "s", "/", ".", "m", "d">>
P_web_yarn_lock == <<"w", "e", "b", "/", "y", "a", "r", "n", ".", "l", "o", "c", "k">>
X_mdx == <<".", "m", "d", "x">>
D_yarn_lock == <<"y", "a", "r", "n", ".", "l", "o", "c", "k">>
D_poetry_lock == <<"p", "o", "e", "t", "r", "y", ".", "l", "o", "c", "k">>
D_Pipfile_lock == <<"P", "i", "p", "f", "i", "l", "e", ".", "l", "o", "c", "k">>

DOC_EXTENSIONS == {X_md, X_mdc, X_txt, X_rst, X_mdx}
LOCKFILE_NAMES == {D_pnpm_lock_yaml, D_package_lock_json, D_yarn_lock,
                   D_poetry_lock, D_Pipfile_lock}

\* Path(f).name: what follows the last "/"
PathName(f) ==
    LET slashes == {i \in 1..Len(f) : f[i] = "/"}
    IN  IF slashes = {} THEN f
        ELSE SubSeq(f, (CHOOSE m \in slashes : \A k \in slashes : k <= m) + 1, Len(f))

\* Path(f).suffix: the name from its last "." on, when that "." is neither
\* the first nor the last character of the name; "" otherwise
PathSuffix(f) ==
    LET name == PathName(f)
        dots == {i \in 1..Len(name) : name[i] = "."}
    IN  IF dots = {} THEN <<>>
        ELSE LET i == CHOOSE m \in dots : \A k \in dots : k <= m
             IN  IF 1 < i /\ i < Len(name) THEN SubSeq(name, i, Len(name)) ELSE <<>>

\* Faulty variant: the files cited by findings do not count as reviewed
check_file_coverage_IgnoreFindings(files, files_read, result) ==
    SelectSeq(files, LAMBDA f :
        /\ f \notin files_read
        /\ PathName(f) \notin LOCKFILE_NAMES
        /\ PathSuffix(f) \notin DOC_EXTENSIONS)

check_file_coverage(files, files_read, result) ==
    LET files_in_suggestions ==
            {Get(s, "file", <<>>) : s \in Elems(Get(result, "suggestions", <<>>))}
        reviewed == files_read \cup files_in_suggestions
    IN  SelectSeq(files, LAMBDA f :
            /\ f \notin reviewed
            /\ PathName(f) \notin LOCKFILE_NAMES
            /\ PathSuffix(f) \notin DOC_EXTENSIONS)

-----------------------------------------------------------------------------
(* Specification of the coverage check: check_file_coverage applied to     *)
(* every combination of inputs within the bounds                           *)

MaxCoverageFiles == 3

RiskIdle ==
    /\ config = CfgEmpty
    /\ changed_files = <<>>
    /\ diff_stats = StatsEmpty
    /\ suggestions = <<>>
    /\ event = "None"
    /\ event_reasons = <<>>

FWarningB == [severity |-> "warning", title |-> "T", body |-> "B", file |-> P_src_b_py, line |-> 20]
FSuggestionC == [severity |-> "suggestion", title |-> "T", body |-> "B", file |-> P_src_c_py, line |-> 5]

CoveragePathPool == {P_src_a_py, P_src_b_py, P_src_c_py, P_README_md,
                     D_pnpm_lock_yaml, P_docs_dot_md, P_web_yarn_lock}
CoverageReadPool == SUBSET {P_src_a_py, P_README_md}
CoverageResultPool ==
    {[summary |-> "OK"],
     [summary |-> "OK", suggestions |-> <<>>],
     [summary |-> "Issues", suggestions |-> <<FWarningB>>],
     [summary |-> "Issues", suggestions |-> <<FPraiseNoFile, FSuggestionC>>]}

InitCoverage ==
    /\ pc = "coverage"
    /\ cov \in [pc : {"input"},
                changed_files : SeqsUpTo(CoveragePathPool, MaxCoverageFiles),
                files_read : CoverageReadPool,
                result : CoverageResultPool,
                missed : {<<>>}]
    /\ agent = NotStarted
    /\ twin = NotStarted
    /\ scan = NotStarted
    /\ prox = NotStarted
    /\ tool = NotStarted
    /\ RiskIdle
    /\ PublishIdle
    /\ RoundsIdle

CheckCoverage ==
    /\ pc = "coverage"
    /\ cov.pc = "input"
    /\ cov' = [cov EXCEPT
                  !.pc = "checked",
                  !.missed = check_file_coverage(cov.changed_files, cov.files_read, cov.result)]
    /\ UNCHANGED <<pc, RiskVars, PublishState, RoundVars, event, event_reasons,
                   agent, twin, scan, prox, tool>>

NextCoverage == CheckCoverage

SpecCoverage == InitCoverage /\ [][NextCoverage]_vars

-----------------------------------------------------------------------------
(* Properties of the coverage check (SpecCoverage) *)

CitedFiles(result) ==
    {s.file : s \in {x \in Elems(Get(result, "suggestions", <<>>)) : "file" \in DOMAIN x}}

\* The path ends in one of the documentation extensions, with at least one
\* character of the file's name before the extension
HasDocExtension(f) ==
    \E e \in DOC_EXTENSIONS :
        /\ EndsWith(f, e)
        /\ Len(f) > Len(e)
        /\ f[Len(f) - Len(e)] # "/"

\* The last component of the path is a lockfile name
IsLockfile(f) ==
    \E n \in LOCKFILE_NAMES : f = n \/ EndsWith(f, <<"/">> \o n)

NeedsReview(f) ==
    /\ f \notin cov.files_read
    /\ f \notin CitedFiles(cov.result)
    /\ ~HasDocExtension(f)
    /\ ~IsLockfile(f)

\* C13: check_file_coverage returns exactly the changed files, in their
\* original order, that were neither read nor cited by a finding and are
\* neither documentation nor lockfiles; changed = [a.py, b.py, c.py] with
\* read = {a.py} and no finding citing b.py or c.py gives [b.py, c.py].
C13_MissedFiles ==
    cov.pc = "checked" =>
        /\ cov.missed = SelectSeq(cov.changed_files, LAMBDA f : NeedsReview(f))
        /\ (/\ cov.changed_files = <<P_src_a_py, P_src_b_py, P_src_c_py>>
            /\ cov.files_read = {P_src_a_py}
            /\ CitedFiles(cov.result) \cap {P_src_b_py, P_src_c_py} = {})
           => cov.missed = <<P_src_b_py, P_src_c_py>>

\* C13 witness: the example of the claim has been computed.
C13_Witness ==
    /\ cov.pc = "checked"
    /\ cov.changed_files = <<P_src_a_py, P_src_b_py, P_src_c_py>>
    /\ cov.files_read = {P_src_a_py}
    /\ Get(cov.result, "suggestions", <<>>) = <<>>
    /\ cov.missed = <<P_src_b_py, P_src_c_py>>

-----------------------------------------------------------------------------
(* Model output text and _extract_json (scripts/llm-review.py)             *)
(*                                                                         *)
(* A text is [wrap, kind, value].  `kind` says what the body is:           *)
(*   "object"  a JSON object, whose content is `value`                     *)
(*   "broken"  braces around something that is not JSON, e.g. {oops}       *)
(*   "array"   the JSON array []        "number"  the JSON number 42       *)
(*   "null"    the JSON literal null    "prose"   words without braces     *)
(*   "empty"   nothing                                                     *)
(* and `wrap` says what surrounds the body:                                *)
(*   "plain"         nothing                                               *)
(*   "fence"         ```json NEWLINE body NEWLINE ```                      *)
(*   "fence_inline"  ```body``` on one line                                *)
(*   "lead"          a sentence and a newline before the body              *)

Text(wrap, kind, value) == [wrap |-> wrap, kind |-> kind, value |-> value]
ObjectText(wrap, value) == Text(wrap, "object", value)
PlainText(kind) == Text("plain", kind, EmptyDict)

\* Python values _extract_json can produce, and the exception it lets out
PyDict(d) == [tag |-> "dict", value |-> d]
PyNone == [tag |-> "None"]
PyList == [tag |-> "list"]
PyInt == [tag |-> "int"]
Raised(e) == [tag |-> "raise", error |-> e]

\* bool(v)
Truthy(v) ==
    CASE v.tag = "dict" -> DOMAIN v.value # {}
      [] v.tag = "list" -> FALSE          \* the only list is []
      [] v.tag = "int" -> TRUE            \* the only number is 42
      [] OTHER -> FALSE

\* raw_text.startswith("```")
StartsWithFence(t) == t.wrap \in {"fence", "fence_inline"}

\* raw_text.find("{") >= 0 and raw_text.rfind("}") + 1 > that
HasBraces(t) == t.kind \in {"object", "broken"}

\* json.loads of the text from the first "{" to the last "}"
LoadBraced(t) == IF t.kind = "object" THEN PyDict(t.value) ELSE PyNone

\* json.loads of the whole text (after a fence was removed); None stands
\* for both the literal null and the JSONDecodeError the function catches
LoadWhole(t) ==
    IF t.wrap = "lead" THEN PyNone
    ELSE CASE t.kind = "array" -> PyList
           [] t.kind = "number" -> PyInt
           [] OTHER -> PyNone

extract_json(t) ==
    IF StartsWithFence(t) /\ t.wrap = "fence_inline"
    THEN Raised("IndexError")             \* split("\n", 1)[1] with no newline
    ELSE IF HasBraces(t) THEN LoadBraced(t)
    ELSE LoadWhole(t)

-----------------------------------------------------------------------------
(* Model responses.  A response is [stop_reason, text, tools, usage];      *)
(* `tools` are its tool_use blocks and `text` what its text blocks add up  *)
(* to.  A request that raises is the outcome ApiError.                     *)

Usage(i, o) == [input_tokens |-> i, output_tokens |-> o]
Response(stop_reason, text, tools, usage) ==
    [stop_reason |-> stop_reason, text |-> text, tools |-> tools, usage |-> usage]
ApiError == [stop_reason |-> "raise", error |-> "APIConnectionError"]

ToolUse(name, input) == [name |-> name, input |-> input]
TOOLS == {"read_file", "search_code", "read_rule", "list_directory"}

-----------------------------------------------------------------------------
(* The tools of the agent (scripts/llm-review.py) over a small file tree.  *)
(*                                                                         *)
(* A location is the sequence of its path segments from "/", a segment a   *)
(* sequence of characters.  The tree:                                      *)
(*   /w/repo            the repository root (REPO_ROOT)                    *)
(*   /w/repo/src/a.py   a file of the repository                           *)
(*   /w/repo/out        a symbolic link to /etc                            *)
(*   /w/repo-old/key    a file in a sibling directory whose name begins    *)
(*                      with the name of the root                          *)
(*   /etc/key           a file elsewhere                                   *)

S_dot == <<".">>
S_dotdot == <<".", ".">>
S_w == <<"w">>
S_repo == <<"r", "e", "p", "o">>
S_repo_old == <<"r", "e", "p", "o", "-", "o", "l", "d">>
S_src == <<"s", "r", "c">>
S_a_py == <<"a", ".", "p", "y">>
S_out == <<"o", "u", "t">>
S_key == <<"k", "e", "y">>
S_etc == <<"e", "t", "c">>

REPO_ROOT == <<S_w, S_repo>>

Directories ==
    { <<>>, <<S_w>>, REPO_ROOT, <<S_w, S_repo, S_src>>, <<S_w, S_repo_old>>, <<S_etc>> }
RegularFiles ==
    { <<S_w, S_repo, S_src, S_a_py>>, <<S_w, S_repo_old, S_key>>, <<S_etc, S_key>> }
SymLinks == [l \in { <<S_w, S_repo, S_out>> } |-> <<S_etc>>]

\* str.split("/")
RECURSIVE SplitPath(_)
SplitPath(chars) ==
    IF \A i \in 1..Len(chars) : chars[i] # "/" THEN <<chars>>
    ELSE LET k == MinOf({i \in 1..Len(chars) : chars[i] = "/"})
         IN  <<SubSeq(chars, 1, k - 1)>> \o SplitPath(SubSeq(chars, k + 1, Len(chars)))

\* Path(user_path): whether it is absolute, and its segments without the
\* empty ones and the "." ones
ParsePath(user_path) ==
    [abs |-> user_path # <<>> /\ user_path[1] = "/",
     segs |-> SelectSeq(SplitPath(user_path), LAMBDA s : s # <<>> /\ s # S_dot)]

\* REPO_ROOT / user_path: an absolute right-hand side replaces the left
JoinPath(base, user_path) ==
    IF ParsePath(user_path).abs THEN ParsePath(user_path).segs
    ELSE base \o ParsePath(user_path).segs

\* Path.resolve(): ".." steps to the parent, a symbolic link is followed,
\* a segment that does not exist is kept
RECURSIVE ResolveFrom(_, _)
ResolveFrom(cur, rest) ==
    IF rest = <<>> THEN cur
    ELSE IF Head(rest) = S_dotdot
    THEN ResolveFrom(IF cur = <<>> THEN <<>> ELSE SubSeq(cur, 1, Len(cur) - 1), Tail(rest))
    ELSE LET next == Append(cur, Head(rest))
         IN  ResolveFrom(IF next \in DOMAIN SymLinks THEN SymLinks[next] ELSE next,
                         Tail(rest))

Resolve(location) == ResolveFrom(<<>>, location)

\* str(path)
RECURSIVE PathStr(_)
PathStr(location) ==
    IF location = <<>> THEN <<"/">>
    ELSE IF Len(location) = 1 THEN <<"/">> \o location[1]
    ELSE PathStr(SubSeq(location, 1, Len(location) - 1))
         \o <<"/">> \o location[Len(location)]

\* s.startswith(p)
StartsWith(s, p) == Len(p) <= Len(s) /\ SubSeq(s, 1, Len(p)) = p

\* _validate_path: <<resolved>>, or <<>> for None
validate_path(user_path) ==
    LET resolved == Resolve(JoinPath(REPO_ROOT, user_path))
    IN  IF ~StartsWith(PathStr(resolved), PathStr(Resolve(REPO_ROOT)))
        THEN <<>>
        ELSE <<resolved>>

\* What a tool returns: a kind of text, and the locations whose content or
\* entries the tool read to produce it
ToolText(kind, opened) == [tag |-> "text", kind |-> kind, opened |-> opened]

\* The number of characters of a tool's text: the numbered lines of a
\* regular file are long, every other text is short
LongFileChars == 7000
ShortTextChars == 50
TextLength(t) == IF t.kind = "file_lines" THEN LongFileChars ELSE ShortTextChars

\* `env` is what the operating system does when the tool opens, lists or
\* runs something: "ok", or the exception it raises

\* tool_read_file after `filepath = _validate_path(input_data["path"])`
ReadFileAt(filepath, env) ==
    IF filepath = <<>> THEN ToolText("access_denied", {})
    ELSE IF filepath[1] \notin Directories \cup RegularFiles
    THEN ToolText("file_not_found", {})
    ELSE IF filepath[1] \notin RegularFiles THEN ToolText("not_a_file", {})
    ELSE IF env # "ok" THEN Raised(env)
    ELSE ToolText("file_lines", {filepath[1]})

tool_read_file(input_data, env) ==
    IF "path" \notin DOMAIN input_data THEN Raised("KeyError")
    ELSE ReadFileAt(validate_path(input_data.path), env)

\* tool_list_directory after `dirpath = _validate_path(input_data["path"])`
ListDirectoryAt(dirpath, env) ==
    IF dirpath = <<>> THEN ToolText("access_denied", {})
    ELSE IF dirpath[1] \notin Directories \cup RegularFiles
    THEN ToolText("directory_not_found", {})
    ELSE IF dirpath[1] \notin Directories THEN ToolText("not_a_directory", {})
    ELSE IF env # "ok" THEN Raised(env)
    ELSE ToolText("entries", {dirpath[1]})

tool_list_directory(input_data, env) ==
    IF "path" \notin DOMAIN input_data THEN Raised("KeyError")
    ELSE ListDirectoryAt(validate_path(input_data.path), env)

\* tool_search_code: grep over the directory, REPO_ROOT when the directory
\* is refused; it catches the timeout and the subprocess errors itself
SearchIn(validated, env) ==
    LET search_dir == IF validated = <<>> THEN REPO_ROOT ELSE validated[1]
    IN  CASE env = "ok" -> ToolText("matches", {search_dir})
          [] env = "TimeoutExpired" -> ToolText("search_timed_out", {})
          [] env = "SubprocessError" -> ToolText("search_failed", {})
          [] OTHER -> Raised(env)

tool_search_code(input_data, env) ==
    IF "pattern" \notin DOMAIN input_data THEN Raised("KeyError")
    ELSE SearchIn(validate_path(Get(input_data, "directory", <<>>)), env)

\* Rule files of the repository: naming.mdc and index in .cursor/rules,
\* naming.md and style.md in docs/rules
R_naming == <<"n", "a", "m", "i", "n", "g">>
R_style == <<"s", "t", "y", "l", "e">>
R_index == <<"i", "n", "d", "e", "x">>
D_cursor_rules == <<".", "c", "u", "r", "s", "o", "r", "/", "r", "u", "l", "e", "s">>
D_docs_rules == <<"d", "o", "c", "s", "/", "r", "u", "l", "e", "s">>
G_mdc == <<"*", ".", "m", "d", "c">>
G_md == <<"*", ".", "m", "d">>

RuleFiles ==
    { JoinPath(REPO_ROOT, D_cursor_rules) \o <<R_naming \o X_mdc>>,
      JoinPath(REPO_ROOT, D_cursor_rules) \o <<R_index>>,
      JoinPath(REPO_ROOT, D_docs_rules) \o <<R_naming \o X_md>>,
      JoinPath(REPO_ROOT, D_docs_rules) \o <<R_style \o X_md>> }

\* config.get("rules", {}).get(key, default)
RulesSetting(cfg, key, default) == Get(Get(cfg, "rules", EmptyDict), key, default)

\* file_pattern.replace("*", "")
PatternExtension(file_pattern) == SelectSeq(file_pattern, LAMBDA ch : ch # "*")

\* rule_path of tool_read_rule: <<location>> of the file with the assumed
\* extension, else of the file named by the id alone, else <<>>
RulePath(rules_dir, extension, rule_id) ==
    IF JoinPath(REPO_ROOT, rules_dir) \o <<rule_id \o extension>> \in RuleFiles
    THEN <<JoinPath(REPO_ROOT, rules_dir) \o <<rule_id \o extension>>>>
    ELSE IF JoinPath(REPO_ROOT, rules_dir) \o <<rule_id>> \in RuleFiles
    THEN <<JoinPath(REPO_ROOT, rules_dir) \o <<rule_id>>>>
    ELSE <<>>

\* The text of tool_read_rule once the rule file is located
ReadRuleAt(rule_path, env) ==
    IF rule_path = <<>> THEN ToolText("rule_not_found", {})
    ELSE IF env # "ok" THEN Raised(env)
    ELSE ToolText("rule", {rule_path[1]})

\* tool_read_rule: the rule file of the configured rules directory
tool_read_rule(input_data, cfg, env) ==
    IF "rule_id" \notin DOMAIN input_data THEN Raised("KeyError")
    ELSE IF \/ Contains(<<"/">>, input_data.rule_id)
            \/ Contains(<<"\\">>, input_data.rule_id)
            \/ Contains(S_dotdot, input_data.rule_id)
    THEN ToolText("access_denied_rule", {})
    ELSE ReadRuleAt(RulePath(RulesSetting(cfg, "directory", D_cursor_rules),
                             PatternExtension(RulesSetting(cfg, "file_pattern", G_mdc)),
                             input_data.rule_id),
                    env)

\* The try block of execute_tool: the tool of that name, or the text for
\* a name that is no tool
Dispatch(name, input_data, cfg, env) ==
    CASE name = "read_file" -> tool_read_file(input_data, env)
      [] name = "search_code" -> tool_search_code(input_data, env)
      [] name = "read_rule" -> tool_read_rule(input_data, cfg, env)
      [] name = "list_directory" -> tool_list_directory(input_data, env)
      [] OTHER -> ToolText("unknown_tool", {})

\* Faulty variant: `except Exception` is missing
ExceptClauses_NoCatchAll(r) ==
    IF r.tag # "raise" THEN r
    ELSE CASE r.error = "PermissionError" -> ToolText("tool_error_permission", {})
           [] r.error = "FileNotFoundError" -> ToolText("tool_error_not_found", {})
           [] r.error = "TimeoutExpired" -> ToolText("tool_error_timeout", {})
           [] OTHER -> r

\* The except clauses of execute_tool, on what the try block gave
ExceptClauses(r) ==
    IF r.tag # "raise" THEN r
    ELSE CASE r.error = "PermissionError" -> ToolText("tool_error_permission", {})
           [] r.error = "FileNotFoundError" -> ToolText("tool_error_not_found", {})
           [] r.error = "TimeoutExpired" -> ToolText("tool_error_timeout", {})
           [] OTHER -> ToolText("tool_error_other", {})

\* Faulty variant: an exception of an unforeseen type is not caught
execute_tool_Reraise(name, input_data, cfg, env) ==
    ExceptClauses_NoCatchAll(Dispatch(name, input_data, cfg, env))

\* execute_tool: the tool's text, or the text of the except clause that
\* catches what the tool raised
execute_tool(name, input_data, cfg, env) ==
    ExceptClauses(Dispatch(name, input_data, cfg, env))

-----------------------------------------------------------------------------
(* The agent loop of live_review (scripts/llm-review.py).                  *)
(*                                                                         *)
(* The state of one call of live_review is a record; its `pc` is           *)
(*   "loop"        about to start round `round_num`                        *)
(*   "after_loop"  the for loop was left (break, or rounds used up)        *)
(*   "verify", "verify_loop"   inside run_verification_pass                *)
(*   "done"        the artifact was written at the end of live_review      *)
(*   "returned"    the artifact was written by the API-error handler       *)
(*   "crashed"     an exception left live_review; nothing was written      *)
(* `requests` and `dispatched` record the model requests and tool calls    *)
(* made so far; `artifact` is <<>> until OUTPUT_PATH is written.           *)

UserMessage(kind) == [role |-> "user", kind |-> kind]
AssistantMessage == [role |-> "assistant", kind |-> "response"]
FinalInstruction == UserMessage("final_instruction")
FollowupMessage(missed) == [role |-> "user", kind |-> "coverage_followup", missed |-> missed]

StartReview(files, rules_exist) ==
    [pc |-> "loop",
     changed_files |-> files,
     rules_exist |-> rules_exist,
     max_rounds |-> compute_max_tool_rounds(Len(files)),
     round_num |-> 0,
     messages |-> <<UserMessage("task")>>,
     files_read |-> {},
     coverage_followup_sent |-> FALSE,
     total_input_tokens |-> 0,
     total_output_tokens |-> 0,
     tool_calls |-> 0,
     response |-> <<>>,
     requests |-> <<>>,
     dispatched |-> <<>>,
     elapsed_ms |-> 0,
     result |-> <<>>,
     v_invoked |-> FALSE,
     v_requests |-> 0,
     v_round |-> 0,
     v_response |-> <<>>,
     v_dispatched |-> 0,
     artifact |-> <<>>,
     error |-> ""]

\* Faulty variant: the tools are offered in every round
RequestTools_NeverWithheld(round_num, rounds) == TOOLS

\* tools=[] if is_final_round else TOOLS
RequestTools(round_num, rounds) ==
    IF round_num = rounds - 1 THEN {} ELSE TOOLS

\* The head of a loop iteration: the final-round instruction and the
\* request as it is sent
BeginRound(st) ==
    LET is_final_round == st.round_num = st.max_rounds - 1
        msgs == IF is_final_round THEN Append(st.messages, FinalInstruction)
                ELSE st.messages
        request == [round |-> st.round_num,
                    tools |-> RequestTools(st.round_num, st.max_rounds),
                    last |-> msgs[Len(msgs)],
                    n |-> Len(msgs)]
    IN  [st EXCEPT !.messages = msgs, !.requests = Append(@, request)]

ApiErrorResult(e) ==
    [summary |-> "Review agent encountered an API error.",
     suggestions |-> <<>>,
     error |-> e]

\* Faulty variant: the failed round is skipped and the loop goes on
OnApiError_Continue(st, e) ==
    IF st.round_num + 1 < st.max_rounds
    THEN [st EXCEPT !.round_num = @ + 1]
    ELSE [st EXCEPT !.pc = "returned", !.artifact = <<ApiErrorResult(e)>>]

\* except Exception: write the error result and return
OnApiError(st, e) ==
    [st EXCEPT !.pc = "returned", !.artifact = <<ApiErrorResult(e)>>]

Crash(st, e) == [st EXCEPT !.pc = "crashed", !.error = e]

\* Faulty variant: the loop also stops when the tokens used reach a budget
Continue_TokenBudget(st) ==
    IF st.round_num + 1 < st.max_rounds /\ st.total_input_tokens < 12
    THEN [st EXCEPT !.round_num = @ + 1]
    ELSE [st EXCEPT !.pc = "after_loop"]

\* Faulty variant: the loop runs one iteration too many
Continue_ExtraRound(st) ==
    IF st.round_num + 1 <= st.max_rounds
    THEN [st EXCEPT !.round_num = @ + 1]
    ELSE [st EXCEPT !.pc = "after_loop"]

\* `continue`: the next value of range(max_rounds), or the end of the loop
Continue(st) ==
    IF st.round_num + 1 < st.max_rounds
    THEN [st EXCEPT !.round_num = @ + 1]
    ELSE [st EXCEPT !.pc = "after_loop"]

\* `break`
Break(st) == [st EXCEPT !.pc = "after_loop"]

\* Faulty variant: the follow-up is sent whenever files are missed
FollowupDue_Unguarded(st, preliminary) == Truthy(preliminary)

\* preliminary and not coverage_followup_sent
FollowupDue(st, preliminary) ==
    Truthy(preliminary) /\ ~st.coverage_followup_sent

OnEndTurn(st, resp) ==
    LET preliminary == extract_json(resp.text)
    IN  IF preliminary.tag = "raise" THEN Crash(st, preliminary.error)
        ELSE IF FollowupDue(st, preliminary)
        THEN IF preliminary.tag # "dict"
             THEN Crash(st, "AttributeError")     \* result.get of a non-dict
             ELSE LET missed == check_file_coverage(st.changed_files, st.files_read,
                                                    preliminary.value)
                  IN  IF missed # <<>>
                      THEN Continue([st EXCEPT
                               !.coverage_followup_sent = TRUE,
                               !.messages = @ \o <<AssistantMessage, FollowupMessage(missed)>>])
                      ELSE Break(st)
        ELSE Break(st)

\* The paths of the read_file blocks of a response
PathsRead(tools) ==
    {b.input.path : b \in {x \in Elems(tools) :
                              x.name = "read_file" /\ "path" \in DOMAIN x.input}}

\* What execute_tool gives for each tool_use block of a response, called
\* with the configuration live_review was given, the operating system doing
\* `env` to the tools
ToolOutcomes(tools, env) ==
    [i \in 1..Len(tools) |-> execute_tool(tools[i].name, tools[i].input, config, env)]

MAX_RESULT_CHARS == 5000

\* Faulty variant: the results are attached in the reverse order
ToolResultsMessage_Reversed(outcomes) ==
    [role |-> "user", kind |-> "tool_results",
     content |-> [i \in 1..Len(outcomes) |->
                     [type |-> "tool_result", tool_use_id |-> Len(outcomes) + 1 - i,
                      content |-> outcomes[Len(outcomes) + 1 - i].kind,
                      chars |-> Min2(TextLength(outcomes[Len(outcomes) + 1 - i]),
                                     MAX_RESULT_CHARS)]]]

\* Faulty variant: the text is attached in full
ToolResultsMessage_Untruncated(outcomes) ==
    [role |-> "user", kind |-> "tool_results",
     content |-> [i \in 1..Len(outcomes) |->
                     [type |-> "tool_result", tool_use_id |-> i,
                      content |-> outcomes[i].kind,
                      chars |-> TextLength(outcomes[i])]]]

\* tool_results: one block per tool_use block, in order; the i-th block of
\* a response has id i
ToolResultsMessage(outcomes) ==
    [role |-> "user", kind |-> "tool_results",
     content |-> [i \in 1..Len(outcomes) |->
                     [type |-> "tool_result", tool_use_id |-> i,
                      content |-> outcomes[i].kind,
                      \* result[:5000]
                      chars |-> Min2(TextLength(outcomes[i]), MAX_RESULT_CHARS)]]]

\* The tool_use branch on what execute_tool gave for the blocks: every
\* block is answered, then `continue`; an exception leaving execute_tool
\* would leave live_review
AnswerToolUse(st, resp, outcomes) ==
    LET raised == {i \in 1..Len(outcomes) : outcomes[i].tag = "raise"}
    IN  IF raised # {}
        THEN Crash([st EXCEPT
                 !.tool_calls = @ + MinOf(raised),
                 !.files_read = @ \cup PathsRead(SubSeq(resp.tools, 1, MinOf(raised))),
                 !.dispatched = @ \o [i \in 1..MinOf(raised) |-> resp.tools[i].name]],
                 outcomes[MinOf(raised)].error)
        ELSE Continue([st EXCEPT
                 !.tool_calls = @ + Len(resp.tools),
                 !.files_read = @ \cup PathsRead(resp.tools),
                 !.dispatched = @ \o [i \in 1..Len(resp.tools) |-> resp.tools[i].name],
                 !.messages = @ \o <<AssistantMessage, ToolResultsMessage(outcomes)>>])

OnToolUse(st, resp) == AnswerToolUse(st, resp, ToolOutcomes(resp.tools, resp.env))

OnResponse(st, resp) ==
    LET s1 == [st EXCEPT !.response = resp,
                         !.total_input_tokens = @ + resp.usage.input_tokens,
                         !.total_output_tokens = @ + resp.usage.output_tokens]
    IN  CASE resp.stop_reason = "end_turn" -> OnEndTurn(s1, resp)
          [] resp.stop_reason = "tool_use" -> OnToolUse(s1, resp)
          [] OTHER -> Break(s1)

\* One iteration of `for round_num in range(max_rounds)`
LoopStep(st, outcome) ==
    IF outcome.stop_reason = "raise"
    THEN OnApiError(BeginRound(st), outcome.error)
    ELSE OnResponse(BeginRound(st), outcome)

-----------------------------------------------------------------------------
(* After the loop: the final result, the verification pass, the artifact *)

MaxVerifyRounds == 5

RawFallback(text) ==
    [summary |-> "Review completed (response format issue).",
     suggestions |-> <<>>,
     raw_response |-> text]

\* Faulty variant: any finding at all starts the verification pass
NeedsVerification_AnyFinding(result) ==
    Get(result, "suggestions", <<>>) # <<>>

\* suggestions and has_critical_or_warning
NeedsVerification(result) ==
    LET found == Get(result, "suggestions", <<>>)
    IN  /\ found # <<>>
        /\ \E s \in Elems(found) : Get(s, "severity", "None") \in {"critical", "warning"}

Stats(st) ==
    [mode |-> "agentic",
     rounds |-> st.round_num + 1,
     tool_calls |-> st.tool_calls,
     input_tokens |-> st.total_input_tokens,
     output_tokens |-> st.total_output_tokens,
     duration_ms |-> st.elapsed_ms,
     \* in millionths of a dollar
     cost_estimate |-> st.total_input_tokens * 3 + st.total_output_tokens * 15]

\* result["stats"] = {...}; OUTPUT_PATH.write_text(json.dumps(result))
WriteResult(st, result) ==
    LET final == DictSet(result, "stats", Stats(st))
    IN  [st EXCEPT !.pc = "done", !.result = <<final>>, !.artifact = <<final>>]

\* What live_review does with the value run_verification_pass returned
FinishReview(st, returned) ==
    LET before_count == Len(Get(st.result[1], "suggestions", <<>>))
        after_count == Len(Get(returned, "suggestions", <<>>))
        result == IF after_count < before_count
                  THEN DictSet(returned, "verification",
                           [findings_before |-> before_count,
                            findings_after |-> after_count,
                            dropped |-> before_count - after_count])
                  ELSE returned
    IN  WriteResult(st, result)

\* From the end of the loop to the decision to verify
PostLoop(st, elapsed) ==
    LET s1 == [st EXCEPT !.elapsed_ms = elapsed]
        parsed == extract_json(st.response.text)
    IN  CASE parsed.tag = "raise" -> Crash(s1, parsed.error)
          [] parsed.tag \in {"list", "int"} -> Crash(s1, "AttributeError")
          [] OTHER ->
               LET result == IF parsed.tag = "None" THEN RawFallback(st.response.text)
                             ELSE parsed.value
               IN  IF NeedsVerification(result)
                   THEN [s1 EXCEPT !.pc = "verify", !.result = <<result>>,
                                   !.v_invoked = TRUE]
                   ELSE WriteResult(s1, result)

\* Faulty variant: the original findings are kept next to the verified ones
VerificationOutcome_Merge(result, verified) ==
    IF verified.tag = "dict" /\ "suggestions" \in DOMAIN verified.value
    THEN [verified.value EXCEPT !.suggestions = @ \o Get(result, "suggestions", <<>>)]
    ELSE result

\* Faulty variant: any parsed object replaces the result
VerificationOutcome_AnyObject(result, verified) ==
    IF verified.tag = "dict" /\ Truthy(verified) THEN verified.value ELSE result

\* The end of run_verification_pass: `verified` is what _extract_json gave
\* for the last response.  An exception (the IndexError of _extract_json,
\* the TypeError of `in` on a number) is caught and gives the original.
VerificationOutcome(result, verified) ==
    CASE verified.tag = "raise" -> result
      [] ~Truthy(verified) -> result
      [] verified.tag = "int" -> result
      [] verified.tag = "dict" /\ "suggestions" \in DOMAIN verified.value -> verified.value
      [] OTHER -> result

\* run_verification_pass up to its first response
VerifyStart(st, outcome) ==
    IF ~st.rules_exist THEN FinishReview(st, st.result[1])
    ELSE LET s1 == [st EXCEPT !.v_requests = @ + 1]
         IN  IF outcome.stop_reason = "raise"
             THEN FinishReview(s1, st.result[1])
             ELSE [s1 EXCEPT !.pc = "verify_loop", !.v_round = 0, !.v_response = outcome]

\* Faulty variant: the loop of the verification pass has no round limit
VerifyStep_Unbounded(st, outcome, dispatch_raises) ==
    LET r == st.v_response
    IN  IF r.stop_reason = "tool_use"
        THEN IF dispatch_raises THEN FinishReview(st, st.result[1])
             ELSE LET s1 == [st EXCEPT !.v_dispatched = @ + Len(r.tools),
                                       !.v_requests = @ + 1]
                  IN  IF outcome.stop_reason = "raise"
                      THEN FinishReview(s1, st.result[1])
                      ELSE [s1 EXCEPT !.v_round = @ + 1, !.v_response = outcome]
        ELSE FinishReview(st, VerificationOutcome(st.result[1], extract_json(r.text)))

\* One iteration of `for verify_round in range(5)`, or what follows the loop
VerifyStep(st, outcome, dispatch_raises) ==
    LET r == st.v_response
    IN  IF st.v_round < MaxVerifyRounds /\ r.stop_reason = "tool_use"
        THEN IF dispatch_raises THEN FinishReview(st, st.result[1])
             ELSE LET s1 == [st EXCEPT !.v_dispatched = @ + Len(r.tools),
                                       !.v_requests = @ + 1]
                  IN  IF outcome.stop_reason = "raise"
                      THEN FinishReview(s1, st.result[1])
                      ELSE [s1 EXCEPT !.v_round = @ + 1, !.v_response = outcome]
        ELSE FinishReview(st, VerificationOutcome(st.result[1], extract_json(r.text)))

-----------------------------------------------------------------------------
(* Specification of live_review.  Each action is one step of the function  *)
(* for one outcome of the model request it makes.  `twin` is a second call *)
(* of live_review on the same context that receives the same responses,    *)
(* except that every response reports a larger token usage and the clock   *)
(* shows a longer elapsed time.                                            *)

MaxVariedRounds == 1

ReviewClean == [summary |-> "Looks good", suggestions |-> <<>>]
ReviewWarning == [summary |-> "Issues found", suggestions |-> <<FWarningFar>>]
ReviewMixed == [summary |-> "Issues found", suggestions |-> <<FSuggestion, FCritical>>]
ReviewSuggestion == [summary |-> "Minor", suggestions |-> <<FSuggestion>>]
ReviewPraise == [summary |-> "Nice", suggestions |-> <<FPraiseNoFile>>]
ReviewNoFindingsKey == [summary |-> "Done"]

FinalTextPool ==
    {ObjectText("plain", ReviewClean),
     ObjectText("fence", ReviewWarning),
     ObjectText("plain", ReviewMixed),
     ObjectText("lead", ReviewSuggestion),
     ObjectText("plain", ReviewPraise),
     ObjectText("plain", ReviewNoFindingsKey),
     ObjectText("plain", EmptyDict),
     ObjectText("fence_inline", ReviewClean),
     PlainText("prose"),
     PlainText("broken"),
     PlainText("array"),
     PlainText("number"),
     PlainText("null"),
     PlainText("empty")}

UsageOf(text) == IF text.kind = "object" THEN Usage(2, 3) ELSE Usage(1, 1)

EndTurnPool == {Response("end_turn", t, <<>>, UsageOf(t)) : t \in FinalTextPool}

ReadA == ToolUse("read_file", [path |-> P_src_a_py])
ReadNoPath == ToolUse("read_file", [start_line |-> 1])
SearchCode == ToolUse("search_code", [pattern |-> "TODO"])
ReadOutside == ToolUse("read_file", [path |-> <<"/">> \o S_etc \o <<"/">> \o S_key])
ReadMissing == ToolUse("read_file", [path |-> P_src_b_py])
RunShell == ToolUse("run_shell", [command |-> "ls"])

\* What the operating system may do to the tools of round `round_num`
AgentEnvPool(round_num) ==
    IF round_num < MaxVariedRounds
    THEN {"ok", "TimeoutExpired"}
    ELSE {"ok"}

\* A response with tool_use blocks, and what happens when they are run
ToolRound(text, tools, usage, env) ==
    [stop_reason |-> "tool_use", text |-> text, tools |-> tools, usage |-> usage,
     env |-> env]

\* Tool requests a response may carry in round `round_num`
ToolUsePool(round_num) ==
    {ToolRound(PlainText("prose"), <<SearchCode, ReadA>>, Usage(1, 1), env) :
        env \in AgentEnvPool(round_num)}
    \cup (IF round_num < MaxVariedRounds
          THEN {ToolRound(PlainText("empty"),
                          <<ReadNoPath, RunShell, ReadOutside, ReadMissing>>,
                          Usage(1, 1), "ok")}
          ELSE {})

\* A response cut off by the token limit
OtherStopPool ==
    {Response("max_tokens", PlainText("broken"), <<>>, Usage(1, 2)),
     Response("max_tokens", ObjectText("plain", ReviewWarning), <<>>, Usage(1, 2))}

ReviewFixed == [summary |-> "Verified", suggestions |-> <<FWarningB>>]
VerifyTextPool ==
    {ObjectText("fence", ReviewClean),
     ObjectText("plain", ReviewFixed),
     ObjectText("plain", ReviewNoFindingsKey),
     ObjectText("fence_inline", ReviewFixed),
     PlainText("prose"),
     PlainText("number"),
     PlainText("array")}

VerifyOutcomePool ==
    {Response("end_turn", t, <<>>, Usage(1, 1)) : t \in VerifyTextPool}
    \cup {Response("tool_use", PlainText("empty"), <<ReadA>>, Usage(1, 1)),
          Response("tool_use", ObjectText("plain", ReviewFixed), <<ReadA>>, Usage(1, 1)),
          Response("max_tokens", PlainText("broken"), <<>>, Usage(1, 1)),
          ApiError}

AgentChangedPool == {<<>>, <<P_src_a_py>>, <<P_src_c_py>>}
ElapsedPool == {120}

\* The same response as the twin receives it
TwinResponse(resp) ==
    [resp EXCEPT !.usage = Usage(@.input_tokens + 4, @.output_tokens + 2)]
TwinElapsed(ms) == ms + 7

InitAgent ==
    /\ pc = "live_review"
    /\ \E files \in AgentChangedPool, rules_exist \in BOOLEAN :
          /\ agent = StartReview(files, rules_exist)
          /\ twin = StartReview(files, rules_exist)
    /\ scan = NotStarted
    /\ cov = NotStarted
    /\ prox = NotStarted
    /\ tool = NotStarted
    /\ RiskIdle
    /\ PublishIdle
    /\ RoundsIdle

AgentRest == <<pc, RiskVars, PublishState, RoundVars, event, event_reasons, scan, cov,
              prox, tool>>

\* One loop iteration of the twin, on the response as it receives it
TwinLoopStep(outcome) ==
    IF twin.pc = "loop" THEN LoopStep(twin, outcome) ELSE twin

RoundEndTurn ==
    /\ agent.pc = "loop"
    /\ \E resp \in EndTurnPool :
          /\ agent' = LoopStep(agent, resp)
          /\ twin' = TwinLoopStep(TwinResponse(resp))
    /\ UNCHANGED AgentRest

RoundToolUse ==
    /\ agent.pc = "loop"
    /\ \E resp \in ToolUsePool(agent.round_num) :
          /\ agent' = LoopStep(agent, resp)
          /\ twin' = TwinLoopStep(TwinResponse(resp))
    /\ UNCHANGED AgentRest

RoundOtherStop ==
    /\ agent.pc = "loop"
    /\ \E resp \in OtherStopPool :
          /\ agent' = LoopStep(agent, resp)
          /\ twin' = TwinLoopStep(TwinResponse(resp))
    /\ UNCHANGED AgentRest

RoundApiError ==
    /\ agent.pc = "loop"
    /\ agent' = LoopStep(agent, ApiError)
    /\ twin' = TwinLoopStep(ApiError)
    /\ UNCHANGED AgentRest

AfterLoop ==
    /\ agent.pc = "after_loop"
    /\ \E ms \in ElapsedPool :
          /\ agent' = PostLoop(agent, ms)
          /\ twin' = IF twin.pc = "after_loop" THEN PostLoop(twin, TwinElapsed(ms)) ELSE twin
    /\ UNCHANGED AgentRest

VerificationStart ==
    /\ agent.pc = "verify"
    /\ \E outcome \in VerifyOutcomePool :
          /\ agent' = VerifyStart(agent, outcome)
          /\ twin' = IF twin.pc = "verify" THEN VerifyStart(twin, outcome) ELSE twin
    /\ UNCHANGED AgentRest

VerificationStep ==
    /\ agent.pc = "verify_loop"
    /\ \E outcome \in VerifyOutcomePool, dispatch_raises \in BOOLEAN :
          /\ agent' = VerifyStep(agent, outcome, dispatch_raises)
          /\ twin' = IF twin.pc = "verify_loop"
                     THEN VerifyStep(twin, outcome, dispatch_raises) ELSE twin
    /\ UNCHANGED AgentRest

NextAgent ==
    \/ RoundEndTurn
    \/ RoundToolUse
    \/ RoundOtherStop
    \/ RoundApiError
    \/ AfterLoop
    \/ VerificationStart
    \/ VerificationStep

SpecAgent == InitAgent /\ [][NextAgent]_vars

-----------------------------------------------------------------------------
(* Properties of live_review (SpecAgent) *)

Without(d, k) == [x \in DOMAIN d \ {k} |-> d[x]]

LastRound == agent.max_rounds - 1

\* C11: the request of the last round (index max_rounds - 1), and only
\* that one, offers no tools and has the final instruction as the message
\* just before it; every earlier request offers the four tools.
C11_FinalRoundToolFree ==
    agent.pc # "idle" =>
        \A i \in 1..Len(agent.requests) :
            LET q == agent.requests[i]
            IN  /\ q.round = i - 1
                /\ q.round <= LastRound
                /\ (q.round = LastRound) <=> (q.tools = {})
                /\ (q.round = LastRound) <=> (q.last = FinalInstruction)
                /\ (q.round < LastRound) =>
                      /\ q.tools = {"read_file", "search_code", "read_rule", "list_directory"}
                      /\ Cardinality(q.tools) = 4

\* C11 witness: the request of the last round has been made, after a
\* coverage follow-up in an earlier round.
C11_Witness ==
    /\ agent.pc # "idle"
    /\ Len(agent.requests) = agent.max_rounds
    /\ agent.requests[agent.max_rounds].tools = {}
    /\ agent.requests[agent.max_rounds].last = FinalInstruction
    /\ agent.coverage_followup_sent

FollowupsSent(st) ==
    {i \in 1..Len(st.messages) : st.messages[i].kind = "coverage_followup"}

\* C12: whatever the model answers, the conversation holds at most one
\* coverage follow-up message.
C12_FollowupAtMostOnce ==
    agent.pc # "idle" => Cardinality(FollowupsSent(agent)) <= 1

\* C12 witness: after the follow-up the model ended its turn again with a
\* parsed result that still leaves a changed file unreviewed, and the loop
\* was left without a second follow-up.
C12_Witness ==
    /\ agent.pc = "after_loop"
    /\ Cardinality(FollowupsSent(agent)) = 1
    /\ agent.response.stop_reason = "end_turn"
    /\ agent.response.text.kind = "object"
    /\ agent.response.text.wrap = "plain"
    /\ agent.response.text.value = ReviewClean
    /\ agent.files_read = {}
    /\ agent.changed_files = <<P_src_a_py>>
    /\ agent.requests[Len(agent.requests)].last.kind = "coverage_followup"

\* C14: a model request that fails in a round ends live_review there: the
\* failed request is the last one, no tool is dispatched, the verification
\* pass does not run, and the artifact has the error field, no findings
\* and no stats.
C14_ApiErrorStopsRun ==
    /\ agent.pc = "loop" =>
          LET s == LoopStep(agent, ApiError)
          IN  /\ s.pc = "returned"
              /\ Len(s.requests) = Len(agent.requests) + 1
              /\ s.dispatched = agent.dispatched
    /\ agent.pc = "returned" =>
          /\ ~agent.v_invoked
          /\ agent.v_requests = 0
          /\ Len(agent.artifact) = 1
          /\ "error" \in DOMAIN agent.artifact[1]
          /\ agent.artifact[1].error # ""
          /\ agent.artifact[1].suggestions = <<>>
          /\ "stats" \notin DOMAIN agent.artifact[1]
          /\ ~ENABLED NextAgent

\* C14 witness: the request failed in a later round, after tools had been
\* dispatched.
C14_Witness ==
    /\ agent.pc = "returned"
    /\ agent.round_num >= 2
    /\ agent.dispatched # <<>>
    /\ Len(agent.requests) = agent.round_num + 1

\* The last response holds no JSON object at all
NoJsonObject(st) == st.response # <<>> /\ st.response.text.kind # "object"

RunOver(st) == st.pc \in {"done", "crashed"}

\* C15: when the text of the last response cannot be parsed as a JSON
\* object the run still completes: the artifact is written with an empty
\* findings list, the raw text, stats and no error field, and the
\* verification pass is skipped.
C15_UnparseableCompletes ==
    (RunOver(agent) /\ NoJsonObject(agent)) =>
        /\ agent.pc = "done"
        /\ Len(agent.artifact) = 1
        /\ agent.artifact[1].suggestions = <<>>
        /\ "raw_response" \in DOMAIN agent.artifact[1]
        /\ agent.artifact[1].raw_response = agent.response.text
        /\ "error" \notin DOMAIN agent.artifact[1]
        /\ "stats" \in DOMAIN agent.artifact[1]
        /\ ~agent.v_invoked

\* The same for the texts on which _extract_json returns None
C15_WhenExtractReturnsNone ==
    (RunOver(agent) /\ agent.response # <<>>
        /\ agent.response.text.wrap # "fence_inline"
        /\ agent.response.text.kind \in {"prose", "broken", "null", "empty"}) =>
        /\ agent.pc = "done"
        /\ agent.artifact[1].suggestions = <<>>
        /\ agent.artifact[1].raw_response = agent.response.text
        /\ "error" \notin DOMAIN agent.artifact[1]
        /\ "stats" \in DOMAIN agent.artifact[1]
        /\ ~agent.v_invoked

NoUsage(resp) == IF resp = <<>> THEN resp ELSE Without(resp, "usage")
NoStats(written) == IF written = <<>> THEN written ELSE <<Without(written[1], "stats")>>

\* What of a call of live_review does not consist of token counts or time
ControlFlow(st) ==
    [st EXCEPT !.total_input_tokens = 0,
               !.total_output_tokens = 0,
               !.elapsed_ms = 0,
               !.response = NoUsage(@),
               !.result = NoStats(@),
               !.artifact = NoStats(@)]

\* C16: two calls that receive the same responses with different token
\* usage and elapsed time make the same requests and tool dispatches and
\* produce the same summary and findings; they differ in stats at most.
C16_TokensDoNotSteer ==
    agent.pc # "idle" => ControlFlow(agent) = ControlFlow(twin)

\* C16 witness: both calls are done after tool rounds and a verification
\* pass, with different stats.
C16_Witness ==
    /\ agent.pc = "done"
    /\ twin.pc = "done"
    /\ agent.dispatched # <<>>
    /\ agent.v_requests >= 2
    /\ agent.artifact[1].stats.input_tokens < twin.artifact[1].stats.input_tokens
    /\ agent.artifact[1].stats.duration_ms # twin.artifact[1].stats.duration_ms

\* The result the loop ended with, read off its last response: the object
\* in the text, or the raw-text result when there is none
LoopResult(st) ==
    IF st.response.text.kind = "object" THEN st.response.text.value
    ELSE [summary |-> "Review completed (response format issue).",
          suggestions |-> <<>>,
          raw_response |-> st.response.text]

HasSevereFinding(result) ==
    /\ "suggestions" \in DOMAIN result
    /\ \E i \in 1..Len(result.suggestions) :
          /\ "severity" \in DOMAIN result.suggestions[i]
          /\ result.suggestions[i].severity \in {"critical", "warning"}

PastLoop(st) == st.pc \in {"verify", "verify_loop", "done"}

\* C17: run_verification_pass is invoked exactly when the loop's result
\* has a finding of severity critical or warning; otherwise no
\* verification request is made and the loop's result is what is written.
C17_VerifyIffSevere ==
    PastLoop(agent) =>
        /\ agent.v_invoked <=> HasSevereFinding(LoopResult(agent))
        /\ ~HasSevereFinding(LoopResult(agent)) =>
              /\ agent.v_requests = 0
              /\ agent.pc = "done"
              /\ Without(agent.artifact[1], "stats") = LoopResult(agent)

\* C17 witness: a result with findings, none of them critical or warning,
\* was written without verification.
C17_Witness ==
    /\ agent.pc = "done"
    /\ ~agent.v_invoked
    /\ Get(agent.artifact[1], "suggestions", <<>>) # <<>>
    /\ \A s \in Elems(Get(agent.artifact[1], "suggestions", <<>>)) :
          s.severity \in {"suggestion", "praise"}

\* run_verification_pass reached the parse of its last response
VerificationConcluded(st) ==
    /\ st.pc = "done"
    /\ st.v_invoked
    /\ st.v_response # <<>>
    /\ ~(st.v_round < MaxVerifyRounds /\ st.v_response.stop_reason = "tool_use")

\* The last verification response parsed as an object with a findings list
VerifiedObject(st) ==
    /\ VerificationConcluded(st)
    /\ extract_json(st.v_response.text).tag = "dict"
    /\ "suggestions" \in DOMAIN extract_json(st.v_response.text).value

Written(st) == Without(Without(st.artifact[1], "stats"), "verification")

\* C18: when the last verification response parses as an object with a
\* findings list, that object replaces the result: summary and findings
\* are the verified ones, nothing of the original is merged in.
C18_VerifiedReplaces ==
    VerifiedObject(agent) =>
        LET verified == extract_json(agent.v_response.text).value
        IN  /\ Written(agent) = verified
            /\ agent.artifact[1].suggestions = verified.suggestions
            /\ agent.artifact[1].summary = verified.summary

\* C18 witness: verification dropped the one finding the loop had
\* produced.
C18_Witness ==
    /\ VerifiedObject(agent)
    /\ LoopResult(agent) = ReviewWarning
    /\ agent.artifact[1].suggestions = <<>>
    /\ agent.artifact[1].verification.dropped = 1

\* C19: when the verification pass fails (rules missing, a request that
\* raises, an exception while dispatching a tool, a last response that
\* does not parse or parses to something without a findings list) the
\* result is written as the loop produced it; the run is never aborted.
C19_VerifyFailureKeepsOriginal ==
    /\ agent.v_invoked => agent.pc \in {"verify", "verify_loop", "done"}
    /\ (agent.pc = "done" /\ agent.v_invoked /\ ~VerifiedObject(agent)) =>
          /\ Without(agent.artifact[1], "stats") = LoopResult(agent)
          /\ agent.artifact[1].suggestions = LoopResult(agent).suggestions

\* C19 witness: a verification request after a tool round raised, and the
\* two findings of the loop were written.
C19_Witness ==
    /\ agent.pc = "done"
    /\ agent.v_invoked
    /\ agent.v_requests >= 2
    /\ agent.v_response.stop_reason = "tool_use"
    /\ agent.v_round < MaxVerifyRounds
    /\ agent.artifact[1].suggestions = <<FSuggestion, FCritical>>

-----------------------------------------------------------------------------
(* Specification of the diff scan: the loop of get_diff_line_sets run line *)
(* by line over every well-formed diff within the bounds.  `scan.lines`    *)
(* are the lines consumed so far and `scan.st` the locals of the function. *)

MaxDiffLines == 10

ScanPathPool == {P_src_a_py, P_README_md}

LastKind(lines) == IF lines = <<>> THEN "start" ELSE lines[Len(lines)].kind

\* Index of the "diff --git" line that opens the file section in progress
SectionStart(lines) ==
    LET starts == {i \in 1..Len(lines) : lines[i].kind = "diffgit"}
    IN  CHOOSE m \in starts : \A k \in starts : k <= m

SectionPath(lines) == lines[SectionStart(lines)].path

HunksInSection(lines) ==
    {i \in SectionStart(lines)..Len(lines) : lines[i].kind = "hunk"}

SectionDeletesFile(lines) ==
    \E i \in SectionStart(lines)..Len(lines) : lines[i].kind = "devnull"

PathsSeen(lines) == {lines[i].path : i \in {j \in 1..Len(lines) : lines[j].kind = "diffgit"}}

NextSection(lines) == {Line("diffgit", p, 0, 1) : p \in ScanPathPool \ PathsSeen(lines)}

NextHunk(lines) ==
    IF SectionDeletesFile(lines)
    THEN IF HunksInSection(lines) = {} THEN {Line("hunk", <<>>, 0, 1)} ELSE {}
    ELSE IF HunksInSection(lines) = {}
    THEN {Line("hunk", <<>>, 1, 1), Line("hunk", <<>>, 100, 1)}
    ELSE {Line("hunk", <<>>, 100 * (Cardinality(HunksInSection(lines)) + 1), 1)}

BodyLines(lines) ==
    IF SectionDeletesFile(lines) THEN {Line("del", <<>>, 0, 1)}
    ELSE {Line("add", <<>>, 0, 1), Line("add", <<>>, 0, 2),
          Line("ctx", <<>>, 0, 1), Line("del", <<>>, 0, 1),
          Line("addhdr", P_src_b_py, 0, 1)}

\* The lines that can follow `lines` in the output of git diff
NextLines(lines) ==
    LET last == LastKind(lines)
    IN  CASE last = "start" -> NextSection(lines)
          [] last = "diffgit" ->
                {Line("oldfile", SectionPath(lines), 0, 1), Line("other", <<>>, 0, 1)}
          [] last = "other" /\ HunksInSection(lines) = {} ->
                {Line("oldfile", SectionPath(lines), 0, 1)}
          [] last = "oldfile" ->
                {Line("newfile", SectionPath(lines), 0, 1), Line("devnull", <<>>, 0, 1)}
          [] last \in {"newfile", "devnull"} -> NextHunk(lines)
          [] last = "hunk" -> BodyLines(lines)
          [] last = "other" /\ HunksInSection(lines) # {} ->
                BodyLines(lines) \cup NextHunk(lines) \cup NextSection(lines)
          [] OTHER ->
                BodyLines(lines) \cup NextHunk(lines) \cup NextSection(lines)
                    \cup {Line("other", <<>>, 0, 1)}

ScanStart ==
    [pc |-> "scanning",
     lines |-> <<>>,
     st |-> [line_sets |-> EmptyDict, current_file |-> <<>>, current_new_line |-> 0]]

InitScan ==
    /\ pc = "get_diff_line_sets"
    /\ scan = ScanStart
    /\ agent = NotStarted
    /\ twin = NotStarted
    /\ cov = NotStarted
    /\ prox = NotStarted
    /\ tool = NotStarted
    /\ RiskIdle
    /\ PublishIdle
    /\ RoundsIdle

\* One iteration of `for line in diff_text.split("\n")`
ScanLine ==
    /\ scan.pc = "scanning"
    /\ Len(scan.lines) < MaxDiffLines
    /\ \E l \in NextLines(scan.lines) :
          scan' = [scan EXCEPT !.lines = Append(@, l),
                               !.st = LineSetsStep(@, l)]
    /\ UNCHANGED <<pc, RiskVars, PublishState, RoundVars, event, event_reasons,
                   agent, twin, cov, prox, tool>>

NextScan == ScanLine

SpecScan == InitScan /\ [][NextScan]_vars

-----------------------------------------------------------------------------
(* Properties of the diff scan (SpecScan) *)

\* Lines that occupy a position on the new side of the file
OnNewSide(l) == l.kind \in {"add", "ctx", "addhdr"}

\* Index of the last line of one of `kinds` before line i (0: none)
LastBefore(lines, i, kinds) ==
    LET found == {j \in 1..(i - 1) : lines[j].kind \in kinds}
    IN  IF found = {} THEN 0 ELSE CHOOSE m \in found : \A k \in found : k <= m

RECURSIVE NewSideLinesBetween(_, _, _)
\* How many new-side lines the blocks lines[a..b] stand for
NewSideLinesBetween(lines, a, b) ==
    IF a > b THEN 0
    ELSE (IF OnNewSide(lines[a]) THEN lines[a].reps ELSE 0)
         + NewSideLinesBetween(lines, a + 1, b)

\* The new-side line numbers of block i, replayed from its hunk header
NewSidePositions(lines, i) ==
    LET h == LastBefore(lines, i, {"hunk"})
        first == lines[h].n + NewSideLinesBetween(lines, h + 1, i - 1)
    IN  first..(first + lines[i].reps - 1)

\* The file whose header precedes line i, <<>> if there is none
FileOfLine(lines, i) ==
    LET h == LastBefore(lines, i, {"newfile", "devnull", "diffgit"})
    IN  IF h # 0 /\ lines[h].kind = "newfile" THEN <<lines[h].path>> ELSE <<>>

FilesOfDiff(lines) ==
    {lines[i].path : i \in {j \in 1..Len(lines) : lines[j].kind = "newfile"}}

Replay(lines) ==
    [f \in FilesOfDiff(lines) |->
        UNION {NewSidePositions(lines, i) :
                 i \in {j \in 1..Len(lines) :
                          OnNewSide(lines[j]) /\ FileOfLine(lines, j) = <<f>>}}]

\* C20: the sets get_diff_line_sets records are, file by file, the new-side
\* line numbers obtained by replaying the file's hunks: a hunk header sets
\* the counter to its +N start, each added or context line takes the next
\* number, removed lines take none.
C20_LineSetsAreReplay ==
    scan.pc = "scanning" => scan.st.line_sets = Replay(scan.lines)

\* The same for diffs in which no added line reads "++ b/<path>"
LineSetsAreReplayWithoutLookalike ==
    (scan.pc = "scanning" /\ \A l \in Elems(scan.lines) : l.kind # "addhdr")
        => scan.st.line_sets = Replay(scan.lines)

-----------------------------------------------------------------------------
(* The comment-addressed check *)

COMMENT_PROXIMITY_THRESHOLD == 5

\* Faulty variant: only changes at or below the comment line count
is_comment_addressed_OneSided(file_path, line, changed_ranges) ==
    LET changed_lines == Get(changed_ranges, file_path, {})
    IN  IF line <= 0 THEN FALSE
        ELSE IF changed_lines = {} THEN FALSE
        ELSE \E offset \in 0..COMMENT_PROXIMITY_THRESHOLD :
                (line + offset) \in changed_lines

\* is_comment_addressed: `not line or line <= 0` first, then the file's
\* changed lines, then the offsets 0..5 on both sides
is_comment_addressed(file_path, line, changed_ranges) ==
    LET changed_lines == Get(changed_ranges, file_path, {})
    IN  IF line <= 0 THEN FALSE
        ELSE IF changed_lines = {} THEN FALSE
        ELSE \E offset \in 0..COMMENT_PROXIMITY_THRESHOLD :
                \/ (line + offset) \in changed_lines
                \/ (line - offset) \in changed_lines

-----------------------------------------------------------------------------
(* Specification of the proximity helpers: find_closest_commentable_line   *)
(* and is_comment_addressed applied to every input within the bounds       *)

MaxLineNo == 12
MaxChangedLines == 2

\* Line numbers asked about: from below the first line to beyond the
\* window above the last one
TargetPool == (0 - 1)..(MaxLineNo + COMMENT_PROXIMITY_THRESHOLD + 2)

ChangedSets == {S \in SUBSET (1..MaxLineNo) : Cardinality(S) <= MaxChangedLines}

\* changed_ranges: src/a.py absent or with a few changed lines, src/b.py
\* absent, unchanged or changed on every line
ChangedRangesPool ==
    UNION { { [f \in D |-> IF f = P_src_a_py THEN S ELSE T] :
                S \in ChangedSets, T \in {{}, 1..MaxLineNo} } :
            D \in SUBSET {P_src_a_py, P_src_b_py} }

ClosestInputs ==
    [pc : {"closest"}, commentable_lines : SUBSET (1..MaxLineNo),
     target_line : TargetPool, result : {<<>>}]

AddressedInputs ==
    [pc : {"addressed"}, file_path : {P_src_a_py, P_src_b_py},
     line : TargetPool, changed_ranges : ChangedRangesPool, result : {FALSE}]

InitProximity ==
    /\ pc = "proximity"
    /\ prox \in ClosestInputs \cup AddressedInputs
    /\ agent = NotStarted
    /\ twin = NotStarted
    /\ scan = NotStarted
    /\ cov = NotStarted
    /\ tool = NotStarted
    /\ RiskIdle
    /\ PublishIdle
    /\ RoundsIdle

ProximityRest ==
    <<pc, RiskVars, PublishState, RoundVars, event, event_reasons,
      agent, twin, scan, cov, tool>>

FindClosest ==
    /\ prox.pc = "closest"
    /\ prox' = [prox EXCEPT
                   !.pc = "closest_done",
                   !.result = find_closest_commentable_line(prox.commentable_lines,
                                                            prox.target_line)]
    /\ UNCHANGED ProximityRest

CheckAddressed ==
    /\ prox.pc = "addressed"
    /\ prox' = [prox EXCEPT
                   !.pc = "addressed_done",
                   !.result = is_comment_addressed(prox.file_path, prox.line,
                                                   prox.changed_ranges)]
    /\ UNCHANGED ProximityRest

NextProximity ==
    \/ FindClosest
    \/ CheckAddressed

SpecProximity == InitProximity /\ [][NextProximity]_vars

-----------------------------------------------------------------------------
(* Properties of the proximity helpers (SpecProximity) *)

Dist(a, b) == IF a >= b THEN a - b ELSE b - a

\* C21: the closest commentable line is the target when the target is
\* commentable; otherwise it is a commentable line at most 5 away that no
\* other commentable line is closer than; it is none exactly when no
\* commentable line is within 5 of the target
C21_ClosestLine ==
    prox.pc = "closest_done" =>
        LET L == prox.commentable_lines
            t == prox.target_line
            r == prox.result
        IN  /\ (t \in L => r = <<t>>)
            /\ (r = <<>>) <=> ({l \in L : Dist(l, t) <= 5} = {})
            /\ r # <<>> =>
                  /\ r[1] \in L
                  /\ Dist(r[1], t) <= 5
                  /\ \A l \in L : Dist(r[1], t) <= Dist(l, t)

\* The target is not commentable, the line found is exactly 5 away, and a
\* farther commentable line exists on the other side
C21_Witness ==
    /\ prox.pc = "closest_done"
    /\ prox.target_line \notin prox.commentable_lines
    /\ prox.result # <<>>
    /\ Dist(prox.result[1], prox.target_line) = 5
    /\ \E l \in prox.commentable_lines : l > prox.target_line /\ prox.result[1] < prox.target_line

\* C22 as stated: for every comment line, the comment is addressed exactly
\* when a changed line of the same file is within 5 lines of it
C22_AddressedIffNear ==
    prox.pc = "addressed_done" =>
        (prox.result <=>
            \E c \in Get(prox.changed_ranges, prox.file_path, {}) :
                Dist(c, prox.line) <= 5)

\* C22 amended: for a comment on a line (line >= 1) the comment is
\* addressed exactly when a changed line of the same file is within 5
\* lines of it; a comment without a line (line <= 0) is never addressed
C22_AddressedIffNearWithLine ==
    prox.pc = "addressed_done" =>
        IF prox.line >= 1
        THEN prox.result <=>
                \E c \in Get(prox.changed_ranges, prox.file_path, {}) :
                    Dist(c, prox.line) <= 5
        ELSE ~prox.result

\* A comment addressed only by a change 5 lines above it, while the other
\* file is changed on every line
C22_Witness ==
    /\ prox.pc = "addressed_done"
    /\ prox.result
    /\ prox.file_path = P_src_a_py
    /\ prox.changed_ranges = [f \in {P_src_a_py, P_src_b_py} |->
                                 IF f = P_src_a_py THEN {prox.line - 5} ELSE 1..MaxLineNo]

-----------------------------------------------------------------------------
(* Properties of the inline fallback, the head SHA and the early return    *)
(* (SpecPublish)                                                           *)

BatchRejected == run.inline_rc = <<1>>

\* The requests of the run to post one comment on its own, in order
IndividualPosts ==
    SelectSeq(writes, LAMBDA w : w.op = "create_review_comment")

\* What posting every placed comment once and in order amounts to
EachPlacedComment ==
    [i \in 1..Len(run.inline_comments) |->
        [path |-> run.inline_comments[i].path,
         line |-> run.inline_comments[i].line,
         body |-> run.inline_comments[i].body]]

PostedIndividually ==
    [i \in 1..Len(IndividualPosts) |->
        [path |-> IndividualPosts[i].payload.path,
         line |-> IndividualPosts[i].payload.line,
         body |-> IndividualPosts[i].payload.body]]

PendingReviews(h) == SelectSeq(h.reviews, LAMBDA r : r.state = "PENDING")

\* The fallback's cleanup step, when none of its requests fails: the first
\* pending review is deleted by a request naming it
CleanupDeletesPending ==
    (pc = "fallback" /\ PendingReviews(hub) # <<>> /\ fails' = fails) =>
        /\ writes' = Append(writes, Write("delete_review", "cleanup",
                                          [id |-> PendingReviews(hub)[1].id]))
        /\ \A r \in Elems(hub'.reviews) : r.id # PendingReviews(hub)[1].id

VerdictPostedLast ==
    /\ writes # <<>>
    /\ writes[Len(writes)].kind = "verdict"
    /\ writes[Len(writes)].op = "create_review"

InlinePosts ==
    SelectSeq(writes, LAMBDA w : w.op = "create_review" /\ w.kind = "inline")

\* C24: a run that could not resolve the head SHA still requests the
\* inline review with every placed comment and then the verdict review,
\* and none of its requests carries a commit_id
C24_NoHeadStillPosts ==
    (PublishDone /\ run.head_sha = <<>>) =>
        /\ IF run.inline_comments # <<>>
           THEN /\ Len(InlinePosts) = 1
                /\ [i \in 1..Len(InlinePosts[1].payload.comments) |->
                       [path |-> InlinePosts[1].payload.comments[i].path,
                        line |-> InlinePosts[1].payload.comments[i].line,
                        body |-> InlinePosts[1].payload.comments[i].body]]
                   = EachPlacedComment
                /\ run.inline_rc = <<0>> =>
                      \A i \in 1..Len(run.inline_comments) :
                         \E c \in Elems(hub.review_comments) :
                            /\ c.by = runNo
                            /\ c.path = run.inline_comments[i].path
                            /\ c.line = run.inline_comments[i].line
           ELSE InlinePosts = <<>>
        /\ VerdictPostedLast
        /\ \A i \in 1..Len(writes) :
              writes[i].op \in {"create_review", "create_review_comment"} =>
                 "commit_id" \notin DOMAIN writes[i].payload

\* The head SHA request failed, two comments were placed and the batch
\* review carrying them was accepted, as was the verdict review
C24_Witness ==
    /\ PublishDone
    /\ run.head_sha = <<>>
    /\ Len(run.inline_comments) = 2
    /\ run.inline_rc = <<0>>
    /\ Cardinality({c \in Elems(hub.review_comments) : c.by = runNo}) = 2
    /\ \E r \in VerdictReviews(hub) : r.by = runNo

\* C25: without a repository identifier the run ends before step 1 with no
\* request to the hosting API at all, read or write, and the pull request
\* as it was; with one, no failed request keeps the run from its next step
\* and it ends by requesting the verdict review
C25_OnlyMissingRepoAborts ==
    /\ ~repo =>
          /\ pc \in {"main", "done"}
          /\ gh_calls = 0
          /\ writes = <<>>
          /\ hub = InitialHub
          /\ run = IdleRun
    /\ (repo /\ pc # "done") => StepReady
    /\ PublishDone =>
          /\ VerdictPostedLast
          /\ gh_calls >= Len(writes) + 5

\* A second run without a repository identifier has ended although there
\* were findings to publish
C25_Witness ==
    /\ ~repo
    /\ pc = "done"
    /\ runNo = 2
    /\ Len(suggestions) = 2
    /\ event = "REQUEST_CHANGES"

\* The commentable lines of a finding's file in the diff of the run
CommentableFor(s) == Get(get_diff_line_sets(diff), Get(s, "file", <<>>), {})

\* A finding with a file, a line and a commentable line within 5 of it
Placeable(s) ==
    /\ Get(s, "file", <<>>) # <<>>
    /\ Get(s, "line", 0) # 0
    /\ \E l \in CommentableFor(s) : Dist(l, Get(s, "line", 0)) <= 5

SummaryPosts == SelectSeq(writes, LAMBDA w : w.kind = "summary")

\* C26: the inline comments are the placeable findings, in order, each on
\* a commentable line of its file within 5 of its target (the target when
\* that is commentable); the unplaced list is the other findings, in
\* order; and the summary the run writes shows exactly the unplaced ones.
\* Stated where step 1 has just placed the findings and where step 3 has
\* just written the summary.
C26_PlacedOrUnplaced ==
    (repo /\ pc \in {"minimize", "list_existing"}) =>
        LET placed == SelectSeq(suggestions, Placeable)
            others == SelectSeq(suggestions, LAMBDA s : ~Placeable(s))
        IN  /\ Len(run.inline_comments) = Len(placed)
            /\ \A i \in 1..Len(placed) :
                  LET c == run.inline_comments[i]
                  IN  /\ c.path = placed[i].file
                      /\ c.line \in CommentableFor(placed[i])
                      /\ Dist(c.line, placed[i].line) <= 5
                      /\ placed[i].line \in CommentableFor(placed[i]) =>
                            c.line = placed[i].line
                      /\ c.body = Marked(CommentTag, format_suggestion_body(placed[i]))
            /\ run.unplaced = others
            /\ Len(run.inline_comments) + Len(run.unplaced) = Len(suggestions)
            /\ \A k \in 1..Len(SummaryPosts) :
                  LET shown == SummaryPosts[k].payload.body.text.unplaced
                  IN  /\ Len(shown) = Len(others)
                      /\ \A i \in 1..Len(others) :
                            /\ shown[i].file = Get(others[i], "file", <<>>)
                            /\ shown[i].line = Get(others[i], "line", 0)
                            /\ shown[i].formatted = format_suggestion_body(others[i])

\* A finding on line 0 stays unplaced and is shown in the summary, while
\* the critical finding on line 42 is placed on the nearest commentable
\* line, 40
C26_Witness ==
    /\ repo
    /\ pc = "list_existing"
    /\ suggestions = <<FWarningNoLine, FCritical>>
    /\ Len(run.inline_comments) = 1
    /\ run.inline_comments[1].line = 40
    /\ run.unplaced = <<FWarningNoLine>>
    /\ SummaryPosts # <<>>

-----------------------------------------------------------------------------
(* Specification of the tools: execute_tool applied to every tool call     *)
(* within the bounds, whatever the operating system does                   *)

MaxToolPathLen == 3

SegmentPool ==
    {S_dotdot, S_dot, S_src, S_a_py, S_out, S_key, S_repo_old, S_w, S_repo, S_etc}

\* A path as the model writes it: the segments joined by "/", after a
\* leading "/" when absolute
RECURSIVE JoinSegments(_)
JoinSegments(segs) ==
    IF segs = <<>> THEN <<>>
    ELSE IF Len(segs) = 1 THEN segs[1]
    ELSE segs[1] \o <<"/">> \o JoinSegments(Tail(segs))

UserPathPool ==
    {JoinSegments(segs) : segs \in SeqsUpTo(SegmentPool, MaxToolPathLen)}
    \cup {<<"/">> \o JoinSegments(segs) : segs \in SeqsUpTo(SegmentPool, MaxToolPathLen)}

EnvPool == {"ok", "PermissionError", "FileNotFoundError", "TimeoutExpired",
            "SubprocessError", "UnicodeDecodeError"}

ToolCallPool ==
    {ToolUse(name, [path |-> p]) : name \in {"read_file", "list_directory"}, p \in UserPathPool}
    \cup {ToolUse(name, [start_line |-> 1]) : name \in {"read_file", "list_directory"}}
    \cup {ToolUse("search_code", [pattern |-> "TODO"]),
          ToolUse("search_code", [file_pattern |-> "*.py"]),
          ToolUse("search_code", [pattern |-> "TODO", directory |-> S_src]),
          ToolUse("search_code", [pattern |-> "TODO", directory |-> S_out]),
          ToolUse("read_rule", [rule_id |-> R_naming]),
          ToolUse("read_rule", [rule_id |-> S_src]),
          ToolUse("read_rule", [rule_id |-> S_dotdot \o <<"/">> \o S_key]),
          ToolUse("read_rule", EmptyDict),
          ToolUse("run_shell", [command |-> "ls"])}

InitTools ==
    /\ pc = "execute_tool"
    /\ \E call \in ToolCallPool, env \in EnvPool :
          tool = [pc |-> "call", name |-> call.name, input_data |-> call.input,
                  env |-> env, result |-> <<>>]
    /\ agent = NotStarted
    /\ twin = NotStarted
    /\ scan = NotStarted
    /\ cov = NotStarted
    /\ prox = NotStarted
    /\ RiskIdle
    /\ PublishIdle
    /\ RoundsIdle

ExecuteTool ==
    /\ tool.pc = "call"
    /\ tool' = [tool EXCEPT
                   !.pc = "done",
                   !.result = <<execute_tool(tool.name, tool.input_data, config, tool.env)>>]
    /\ UNCHANGED <<pc, RiskVars, PublishState, RoundVars, event, event_reasons,
                   agent, twin, scan, cov, prox>>

NextTools == ExecuteTool

SpecTools == InitTools /\ [][NextTools]_vars

-----------------------------------------------------------------------------
(* Properties of the tools (SpecTools) *)

\* The root or a descendant of it
InsideRoot(location) ==
    /\ Len(location) >= Len(REPO_ROOT)
    /\ SubSeq(location, 1, Len(REPO_ROOT)) = REPO_ROOT

PathToolCalled ==
    /\ tool.pc = "done"
    /\ tool.name \in {"read_file", "list_directory"}
    /\ "path" \in DOMAIN tool.input_data

RequestedLocation == Resolve(JoinPath(REPO_ROOT, tool.input_data.path))

\* C27: read_file and list_directory answer a path that resolves outside
\* the root with the access-denied text, and read nothing outside the root
C27_ConfinedToRoot ==
    PathToolCalled =>
        /\ ~InsideRoot(RequestedLocation) =>
              tool.result[1].kind = "access_denied"
        /\ \A l \in tool.result[1].opened : InsideRoot(l)

\* The same for the locations whose text form does not begin with the
\* text form of the root
ConfinedUnlessNamePrefix ==
    (PathToolCalled
        /\ ~StartsWith(PathStr(RequestedLocation), PathStr(REPO_ROOT))) =>
        /\ tool.result[1].kind = "access_denied"
        /\ tool.result[1].opened = {}

-----------------------------------------------------------------------------
(* Tool failures in the agent loop (SpecAgent) *)

\* A step of the tool_use branch: tool blocks were counted
ToolUseStep == agent.pc = "loop" /\ agent'.tool_calls > agent.tool_calls

\* The texts execute_tool has for a call that failed
FailureTexts ==
    {"unknown_tool", "access_denied", "file_not_found", "not_a_file",
     "search_timed_out", "search_failed", "tool_error_permission",
     "tool_error_not_found", "tool_error_timeout", "tool_error_other"}

\* The text the block `b` of a response must be answered with when the
\* operating system does `env`
AnsweredAsFailure(b, env, text) ==
    /\ b.name \notin TOOLS => text = "unknown_tool"
    /\ b = ReadOutside => text = "access_denied"
    /\ b = ReadMissing => text = "file_not_found"
    /\ b = ReadNoPath => text = "tool_error_other"
    /\ (b = SearchCode /\ env = "TimeoutExpired") => text = "search_timed_out"
    /\ (b = ReadA /\ env = "TimeoutExpired") => text = "tool_error_timeout"
    /\ (b \in {ReadA, SearchCode} /\ env = "ok") => text \notin FailureTexts

\* C28: a round of tool calls never ends live_review, whatever the calls
\* do (unknown tool, access denied, file not found, timeout, exception in
\* the tool): each block is answered in order by a tool_result carrying
\* the text execute_tool gave for it, no artifact and no error are
\* written, and the loop goes on to the next round (or past its end when
\* this was the last round).
C28_ToolFailureNotFatal ==
    [][ToolUseStep =>
          LET resp == agent'.response
              m == agent'.messages[Len(agent'.messages)]
          IN  /\ agent'.pc \in {"loop", "after_loop"}
              /\ (agent'.pc = "loop") <=> (agent.round_num + 1 < agent.max_rounds)
              /\ agent'.pc = "loop" => agent'.round_num = agent.round_num + 1
              /\ agent'.artifact = <<>>
              /\ agent'.error = ""
              /\ agent'.tool_calls = agent.tool_calls + Len(resp.tools)
              /\ m.role = "user" /\ m.kind = "tool_results"
              /\ agent'.messages[Len(agent'.messages) - 1] = AssistantMessage
              /\ Len(m.content) = Len(resp.tools)
              /\ \A i \in 1..Len(resp.tools) :
                    /\ m.content[i].type = "tool_result"
                    /\ m.content[i].tool_use_id = i
                    /\ AnsweredAsFailure(resp.tools[i], resp.env, m.content[i].content)
       ]_vars

\* C28 witness: a round whose four calls all failed (missing argument,
\* unknown tool, path outside the root, missing file) was answered and the
\* loop is in its next round
C28_Witness ==
    /\ agent.pc = "loop"
    /\ agent.round_num = 1
    /\ agent.error = ""
    /\ agent.response.tools = <<ReadNoPath, RunShell, ReadOutside, ReadMissing>>
    /\ LET m == agent.messages[Len(agent.messages)]
       IN  /\ m.kind = "tool_results"
           /\ [i \in 1..4 |-> m.content[i].content]
                 = <<"tool_error_other", "unknown_tool", "access_denied", "file_not_found">>

\* live_review has ended: by its last statement, by the return of the
\* API-error handler, or by an exception
Terminated(st) == st.pc \in {"done", "returned", "crashed"}

HasSummaryAndFindings(written) ==
    /\ written # <<>>
    /\ "summary" \in DOMAIN written[1]
    /\ "suggestions" \in DOMAIN written[1]

\* C29: every run of live_review that ends has written an artifact with a
\* summary and a findings list, whatever ended it (end of turn, rounds
\* used up, another stop reason, unparseable output); after a failed
\* request the artifact has the error and no findings.
C29_AlwaysWritesArtifact ==
    Terminated(agent) =>
        /\ HasSummaryAndFindings(agent.artifact)
        /\ agent.pc = "returned" =>
              /\ agent.artifact[1].suggestions = <<>>
              /\ agent.artifact[1].error # ""

\* The same for the runs no exception ended, without the findings list
WritesArtifactUnlessCrashed ==
    (Terminated(agent) /\ agent.pc # "crashed") =>
        /\ agent.artifact # <<>>
        /\ agent.pc = "returned" =>
              /\ HasSummaryAndFindings(agent.artifact)
              /\ agent.artifact[1].suggestions = <<>>
              /\ agent.artifact[1].error # ""

\* The model requests the for loop of live_review has made
LoopRequests(st) == Len(st.requests)

\* C30: whatever the model answers, the loop makes at most
\* max_rounds = compute_max_tool_rounds(number of changed files) requests
\* and is over once it has made that many; the rounds value written to the
\* stats is the number of requests the loop made, at most max_rounds.
C30_RoundBudget ==
    agent.pc # "idle" =>
        /\ agent.max_rounds = compute_max_tool_rounds(Len(agent.changed_files))
        /\ LoopRequests(agent) <= agent.max_rounds
        /\ (agent.pc = "loop" /\ agent.round_num = 0) \/ LoopRequests(agent) >= 1
        /\ agent.pc = "loop" =>
              /\ LoopRequests(agent) = agent.round_num
              /\ LoopRequests(agent) < agent.max_rounds
        /\ agent.pc = "done" =>
              /\ agent.artifact[1].stats.rounds = LoopRequests(agent)
              /\ agent.artifact[1].stats.rounds <= agent.max_rounds
              /\ agent.artifact[1].stats.rounds >= 1

\* C30 witness: a run in which every round asked for tools has used up
\* its budget and written stats with rounds = max_rounds
C30_Witness ==
    /\ agent.pc = "done"
    /\ LoopRequests(agent) = agent.max_rounds
    /\ agent.artifact[1].stats.rounds = agent.max_rounds
    /\ agent.response.stop_reason = "tool_use"
    /\ agent.max_rounds = 12

-----------------------------------------------------------------------------
(* The coverage follow-up and the rounds of tools (SpecAgent) *)

\* The for loop is over and live_review goes on to the final result
LoopLeft(st) == st.pc \in {"after_loop", "verify", "verify_loop", "done"}

\* The request that brought the response the result is taken from
LastRequest(st) == st.requests[Len(st.requests)]

\* C31: once the coverage follow-up is in the conversation, a request that
\* includes it is made before the result is finalized, and the result is
\* taken from the response to such a request, whichever round the
\* follow-up was added in.
C31_FollowupIsAnswered ==
    LoopLeft(agent) =>
        \A k \in FollowupsSent(agent) : LastRequest(agent).n >= k

\* The same when the follow-up was not added in the last round
FollowupAnsweredBeforeLastRound ==
    LoopLeft(agent) =>
        \A k \in FollowupsSent(agent) :
            \/ LastRequest(agent).n >= k
            \/ /\ LastRequest(agent).round = agent.max_rounds - 1
               /\ k = Len(agent.messages)
               /\ agent.response.stop_reason = "end_turn"

\* The iteration about to run is the last of range(max_rounds)
InFinalRound(st) == st.pc = "loop" /\ st.round_num = st.max_rounds - 1

\* C32: in the final round no tool is dispatched, whatever the response of
\* that round is.
C32_NoDispatchInFinalRound ==
    [][InFinalRound(agent) =>
          /\ agent'.dispatched = agent.dispatched
          /\ agent'.tool_calls = agent.tool_calls]_vars

\* messages grew at its end only
IsPrefix(s, t) == Len(s) <= Len(t) /\ SubSeq(t, 1, Len(s)) = s

\* The length the text of block `b` has when the operating system does
\* `env`, for the blocks whose text is known beforehand
LengthAsExpected(b, env, chars) ==
    /\ (b = ReadA /\ env = "ok") => chars = MAX_RESULT_CHARS
    /\ b # ReadA => chars = ShortTextChars

\* C33: in a round of tool calls every tool_use block is dispatched once
\* and in order; the assistant response and then one user message are
\* appended, the latter with one tool_result per block in the same order,
\* each with the id of its block and at most 5000 characters of the
\* tool's text; no earlier entry of the conversation changes, in this or
\* any other step.
C33_ToolResultsInOrder ==
    [][/\ agent.pc # "idle" => IsPrefix(agent.messages, agent'.messages)
       /\ ToolUseStep =>
             LET resp == agent'.response
                 count == Len(agent'.messages)
                 m == agent'.messages[count]
             IN  /\ agent'.dispatched
                       = agent.dispatched \o [i \in 1..Len(resp.tools) |-> resp.tools[i].name]
                 /\ agent'.messages[count - 1] = AssistantMessage
                 /\ count = Len(agent.messages) + 2
                               + (IF InFinalRound(agent) THEN 1 ELSE 0)
                 /\ m.role = "user" /\ m.kind = "tool_results"
                 /\ DOMAIN m.content = 1..Len(resp.tools)
                 /\ \A i \in 1..Len(resp.tools) :
                       /\ m.content[i].type = "tool_result"
                       /\ m.content[i].tool_use_id = i
                       /\ m.content[i].chars <= MAX_RESULT_CHARS
                       /\ LengthAsExpected(resp.tools[i], resp.env, m.content[i].chars)
                       /\ AnsweredAsFailure(resp.tools[i], resp.env, m.content[i].content)
      ]_vars

\* C33 witness: a round with two blocks was answered: the search first,
\* with its short text, then the file, cut to 5000 characters
C33_Witness ==
    /\ agent.pc = "loop"
    /\ agent.round_num = 2
    /\ agent.response.tools = <<SearchCode, ReadA>>
    /\ agent.dispatched[Len(agent.dispatched)] = "read_file"
    /\ LET m == agent.messages[Len(agent.messages)]
       IN  /\ m.kind = "tool_results"
           /\ m.content[1].content = "matches" /\ m.content[1].chars = ShortTextChars
           /\ m.content[2].content = "file_lines" /\ m.content[2].chars = MAX_RESULT_CHARS
           /\ m.content[2].tool_use_id = 2

-----------------------------------------------------------------------------
(* The line-delta part of the complexity check (SpecRisk) *)

\* Lines added plus removed in files that are not documentation
CodeLineDelta(stats) ==
    Get(stats, "code_lines_added", 0) + Get(stats, "code_lines_removed", 0)

LargeDiffReported ==
    \E i \in 1..Len(event_reasons) : event_reasons[i].kind = "Large diff"

LargePRReported ==
    \E i \in 1..Len(event_reasons) : event_reasons[i].kind = "Large PR"

\* The decision reached the risk checks
RiskChecksConsulted == RiskDecided /\ CriticalPositions = {} /\ AutoApproveOn

\* C34: the line-delta part of the complexity check trips exactly when the
\* code line delta exceeds the configured maximum; changed documentation
\* lines never trip it.
C34_OnlyCodeLinesCount ==
    RiskChecksConsulted =>
        /\ LargeDiffReported =>
              CodeLineDelta(diff_stats) > Get(config, "max_code_lines", DefaultMaxCodeLines)
        /\ (CodeLineDelta(diff_stats) > Get(config, "max_code_lines", DefaultMaxCodeLines)
                /\ ~LargePRReported) => LargeDiffReported

\* The same for the diffs that change at least one code line
OnlyCodeLinesCountWhenCodeChanged ==
    (RiskChecksConsulted /\ CodeLineDelta(diff_stats) > 0) =>
        /\ LargeDiffReported =>
              CodeLineDelta(diff_stats) > Get(config, "max_code_lines", DefaultMaxCodeLines)
        /\ (CodeLineDelta(diff_stats) > Get(config, "max_code_lines", DefaultMaxCodeLines)
                /\ ~LargePRReported) => LargeDiffReported

-----------------------------------------------------------------------------
(* Specification of _minimize_old_reviews alone, on a pull request with    *)
(* many earlier reviews of the agent                                       *)

MaxPriorReviews == 22

\* The reviews earlier runs left: each has the review header in its body
PriorReviews(n) ==
    [i \in 1..n |->
        [id |-> InitialHub.next_id + i - 1, state |-> "COMMENTED",
         body |-> Marked(ReviewHeader, "earlier review"), kind |-> "verdict",
         comments |-> {}, minimized |-> FALSE, by |-> 1]]

InitMinimize ==
    /\ pc = "minimize"
    /\ \E n \in 0..MaxPriorReviews :
          hub = [InitialHub EXCEPT !.reviews = PriorReviews(n),
                                   !.next_id = @ + n]
    /\ diff = DiffSrcA
    /\ changed_files = <<P_src_a_py>>
    /\ suggestions = <<>>
    /\ config = CfgEmpty
    /\ repo = TRUE
    /\ diff_stats = EmptyDict
    /\ event = "APPROVE"
    /\ event_reasons = <<>>
    /\ run = IdleRun
    /\ writes = <<>>
    /\ runNo = 1
    /\ fails = 0
    /\ gh_calls = 0
    /\ RoundsIdle
    /\ ReviewIdle

NextMinimize ==
    \/ MinimizeList
    \/ MinimizeEach

SpecMinimize == InitMinimize /\ [][NextMinimize]_vars

MinimizeRequests == {i \in 1..Len(writes) : writes[i].op = "minimize"}

\* C35: a run makes at most MAX_CLEANUP_OPS minimize requests, however
\* many earlier reviews there are and whether the requests succeed or fail.
C35_MinimizeBounded ==
    Cardinality(MinimizeRequests) <= MAX_CLEANUP_OPS

\* What the counter of _minimize_old_reviews bounds: the requests that
\* succeeded
SuccessfulMinimizeBounded ==
    /\ run.minimized <= MAX_CLEANUP_OPS
    /\ Cardinality(MinimizeRequests) <= MAX_CLEANUP_OPS + fails
    /\ Cardinality({r \in Elems(hub.reviews) : r.minimized}) = run.minimized

-----------------------------------------------------------------------------
(* Specification of a publish run that is stopped part-way and followed by *)
(* a complete run against a hosting API that no longer fails               *)

\* The pull request after an earlier, complete run (by = -1): its summary
\* comment, its inline review with one comment, its verdict review
HubAfterEarlierRun ==
    LET h1 == HubCreateIssueComment(InitialHub, Marked(SummaryTag, build_summary_body(<<FWarningFar>>, "COMMENT", <<>>, <<>>)), -1)
        h2 == HubCreateReview(h1,
                 InlineReviewPayload(<<"abc123">>,
                     <<[path |-> P_src_a_py, line |-> 9, side |-> "RIGHT",
                        body |-> Marked(CommentTag, format_suggestion_body(FWarningFar))]>>),
                 "inline", -1)
    IN  HubCreateReview(h2, VerdictReviewPayload(<<"abc123">>, "COMMENT", 1), "verdict", -1)

InitCrash ==
    /\ pc = "main"
    /\ diff = DiffSrcA
    /\ changed_files = <<P_src_a_py>>
    /\ suggestions \in SeqsUpTo(PublishFindingPool, MaxFindings)
    /\ config = CfgEmpty
    /\ repo = TRUE
    /\ diff_stats = EmptyDict
    /\ event = "None"
    /\ event_reasons = <<>>
    /\ run = IdleRun
    /\ hub \in {InitialHub, HubAfterEarlierRun}
    /\ writes = <<>>
    /\ runNo = 0
    /\ fails = 0
    /\ gh_calls = 0
    /\ RoundsIdle
    /\ ReviewIdle

\* Positions of post_review_via_gh between two hosting-API steps
MidSequence ==
    {"upsert", "list_existing", "delete_each", "delete_pending", "head",
     "inline", "fallback", "individual", "verdict"}

\* The first run is stopped between two steps; the workflow runs again, and
\* from then on no hosting-API call fails
StopRun ==
    /\ runNo = 1
    /\ pc \in MidSequence
    /\ pc' = "main"
    /\ fails' = MaxFailures
    /\ UNCHANGED <<PublishInputs, diff_stats, event, event_reasons, run, hub, writes,
                   runNo, gh_calls, RoundVars, ReviewVars>>

NextCrash ==
    \/ Main
    \/ MinimizeList
    \/ MinimizeEach
    \/ UpsertSummary
    \/ ListExisting
    \/ DeleteEach
    \/ DeletePending
    \/ GetHeadCommit
    \/ PostInlineBatch
    \/ FallbackCleanup
    \/ PostIndividual
    \/ PostVerdict
    \/ StopRun

SpecCrash == InitCrash /\ [][NextCrash]_vars

\* The run that followed the stopped one has finished
HealedRunDone == PublishDone /\ runNo = 2

\* The bot-marked inline comments are the ones this run posted, one per
\* placed finding, and no review is pending
InlineCommentsReplaced ==
    /\ LET bot == BotInlineComments(hub)
       IN  /\ \A i \in 1..Len(bot) : bot[i].by = runNo
           /\ [i \in 1..Len(bot) |->
                  [path |-> bot[i].path, line |-> bot[i].line, body |-> bot[i].body]]
              = run.inline_comments
    /\ \A r \in Elems(hub.reviews) : r.state # "PENDING"

\* Within a run the deletions of inline comments come before the creations,
\* and the comment about to be deleted was not created by this run
DeletionsBeforeCreations ==
    /\ \A i, j \in 1..Len(writes) :
          (writes[i].op = "delete_review_comment" /\ writes[j].kind = "inline") => i < j
    /\ pc = "delete_each" =>
          \A c \in Elems(hub.review_comments) :
              c.id = run.existing[run.i] => c.by # runNo

\* C36: after a run that stopped part-way, a complete run against a
\* non-failing hosting API leaves exactly one summary comment, exactly its
\* own bot-marked inline comments and no pending review; in every run the
\* deletions precede the creations and never hit the run's own comments.
C36_SelfHealing ==
    /\ HealedRunDone =>
          /\ Len(IdsOf(hub.issue_comments, SummaryTag)) = 1
          /\ InlineCommentsReplaced
    /\ DeletionsBeforeCreations

\* What does hold: the inline comments and the pending review heal, the
\* first marked summary comment carries this run's summary, and there is
\* one summary comment unless one existed before the stopped run
HealsExceptDuplicateSummary ==
    /\ HealedRunDone =>
          /\ InlineCommentsReplaced
          /\ LET ids == IdsOf(hub.issue_comments, SummaryTag)
                 first == SelectSeq(hub.issue_comments,
                                    LAMBDA c : BodyContains(c.body, SummaryTag))[1]
             IN  /\ Len(ids) >= 1
                 /\ first.body = Marked(SummaryTag,
                        build_summary_body(suggestions, event, event_reasons, run.unplaced))
                 /\ (\A r \in Elems(hub.reviews) : r.by # -1) => Len(ids) = 1
    /\ DeletionsBeforeCreations

-----------------------------------------------------------------------------
(* The verification pass (SpecAgent) *)

\* The findings the pass returns when it finalizes from response r: the
\* ones of the object in r's text when that has a findings list, the
\* original ones otherwise
FindingsFinalizedFrom(st, r) ==
    LET verified == extract_json(r.text)
    IN  IF verified.tag = "dict" /\ "suggestions" \in DOMAIN verified.value
        THEN verified.value.suggestions
        ELSE Get(st.result[1], "suggestions", <<>>)

VerifyBounded(st) ==
    st.pc \in {"verify_loop", "done"} =>
        /\ st.v_round <= MaxVerifyRounds
        \* the first request, then one per dispatch round
        /\ st.v_requests <= 1 + MaxVerifyRounds
        \* every response of the pool asks for one tool
        /\ st.v_dispatched <= MaxVerifyRounds
        /\ st.v_requests <= 1 + st.v_dispatched

\* After the fifth exchange the pass makes no request and no dispatch any
\* more and finalizes from the response it holds
FinalizesAfterLastExchange ==
    (agent.pc = "verify_loop" /\ agent.v_round = MaxVerifyRounds) =>
        /\ agent'.pc = "done"
        /\ agent'.v_requests = agent.v_requests
        /\ agent'.v_dispatched = agent.v_dispatched
        /\ Get(agent'.artifact[1], "suggestions", <<>>)
               = FindingsFinalizedFrom(agent, agent.v_response)

\* C37: the verification pass makes at most 5 tool-use/response exchanges
\* (one request per exchange after the first request) and then finalizes
\* from the last response received, whatever its stop reason.
C37_VerifyBounded == [](VerifyBounded(agent)) /\ [][FinalizesAfterLastExchange]_vars

\* C37 witness: after five exchanges the sixth response asked for a tool
\* again; the pass ended with six requests and took its findings from the
\* text of that response.
C37_Witness ==
    /\ agent.pc = "done"
    /\ agent.v_round = MaxVerifyRounds
    /\ agent.v_requests = MaxVerifyRounds + 1
    /\ agent.v_dispatched = MaxVerifyRounds
    /\ agent.v_response.stop_reason = "tool_use"
    /\ agent.artifact # <<>>
    /\ Get(agent.artifact[1], "suggestions", <<>>) = ReviewFixed.suggestions

-----------------------------------------------------------------------------
(* Specification of the hand-over from the agent to the publish stage:     *)
(* live_review has ended, main() of post-review.py loads the artifact it   *)
(* wrote and publishes it                                                  *)

\* live_review on one changed file, ended by the responses given in order
ReviewEndedBy(outcomes) ==
    LET RECURSIVE Drive(_, _)
        Drive(st, k) ==
            IF k > Len(outcomes) \/ st.pc # "loop" THEN st
            ELSE Drive(LoopStep(st, outcomes[k]), k + 1)
        looped == Drive(StartReview(<<P_src_a_py>>, FALSE), 1)
    IN  IF looped.pc = "after_loop" THEN PostLoop(looped, 120) ELSE looped

ReadThenAnswer(text) ==
    << ToolRound(PlainText("empty"), <<ReadA>>, Usage(1, 1), "ok"),
       Response("end_turn", text, <<>>, UsageOf(text)) >>

\* Ended reviews: the model request failed; the final text was not an
\* object; the review found nothing; the review found a suggestion
EndedReviews ==
    { ReviewEndedBy(<<ApiError>>),
      ReviewEndedBy(ReadThenAnswer(PlainText("prose"))),
      ReviewEndedBy(ReadThenAnswer(ObjectText("plain", ReviewClean))),
      ReviewEndedBy(ReadThenAnswer(ObjectText("plain", ReviewSuggestion))) }

\* The artifact records a failure of the agent run
FailedResult(result) ==
    "error" \in DOMAIN result \/ "raw_response" \in DOMAIN result

InitHandoff ==
    /\ pc = "load_result"
    /\ agent \in EndedReviews
    /\ twin = NotStarted
    /\ scan = NotStarted
    /\ cov = NotStarted
    /\ prox = NotStarted
    /\ tool = NotStarted
    /\ diff = DiffSrcA
    /\ changed_files = <<P_src_a_py>>
    /\ suggestions = <<>>
    /\ config \in PublishConfigPool
    /\ repo = TRUE
    /\ diff_stats = EmptyDict
    /\ event = "None"
    /\ event_reasons = <<>>
    /\ run = IdleRun
    /\ hub = InitialHub
    /\ writes = <<>>
    /\ runNo = 0
    /\ fails = 0
    /\ gh_calls = 0
    /\ RoundsIdle

\* main() of post-review.py up to the findings: the artifact is loaded, a
\* skipped review is not posted, the findings are result.get("suggestions",
\* []); no other field of the artifact decides anything
LoadResult ==
    /\ pc = "load_result"
    /\ agent.artifact # <<>>
    /\ LET result == agent.artifact[1]
       IN  IF Get(result, "skip", FALSE)
           THEN /\ pc' = "skipped"
                /\ UNCHANGED suggestions
           ELSE /\ pc' = "main"
                /\ suggestions' = Get(result, "suggestions", <<>>)
    /\ UNCHANGED <<config, diff, changed_files, repo, diff_stats, event, event_reasons,
                   run, hub, writes, runNo, fails, gh_calls, RoundVars, ReviewVars>>

NextHandoff ==
    \/ LoadResult
    \/ Main
    \/ MinimizeList
    \/ MinimizeEach
    \/ UpsertSummary
    \/ ListExisting
    \/ DeleteEach
    \/ DeletePending
    \/ GetHeadCommit
    \/ PostInlineBatch
    \/ FallbackCleanup
    \/ PostIndividual
    \/ PostVerdict
    \/ Rerun

SpecHandoff == InitHandoff /\ [][NextHandoff]_vars

ApprovalRequested ==
    \E i \in 1..Len(writes) :
        /\ writes[i].op = "create_review"
        /\ writes[i].payload.event = "APPROVE"

\* C38: the result of a failed agent run (error field, or raw-text
\* fallback) is never published with verdict APPROVE.
C38_FailedRunNotApproved ==
    (agent.artifact # <<>> /\ FailedResult(agent.artifact[1])) =>
        /\ event # "APPROVE"
        /\ ~ApprovalRequested

\* What the publish stage does with a failed run's result: it judges it as
\* it judges a review that found nothing
FailedRunJudgedAsClean ==
    (pc \notin {"load_result", "main"} /\ FailedResult(agent.artifact[1])) =>
        /\ suggestions = <<>>
        /\ event = determine_review_event(<<>>, changed_files, diff_stats, config).event

-----------------------------------------------------------------------------
(* The summary and the verdict review of one run (SpecPublish) *)

\* The heading build_summary_body shows for a review event
VerdictShownFor(ev) ==
    CASE ev = "APPROVE" -> "Auto-Approved"
      [] ev = "REQUEST_CHANGES" -> "Changes Requested"
      [] ev = "COMMENT" -> "Human Review Required"

VerdictPosts == SelectSeq(writes, LAMBDA w : w.kind = "verdict")

\* C39: in a finished run the verdict heading of the summary the run wrote
\* corresponds to the event of the verdict review it posted, and the
\* inline-comment count in the verdict review body is the number of
\* findings the run placed inline.
C39_SummaryMatchesVerdict ==
    PublishDone =>
        /\ Len(SummaryPosts) = 1
        /\ Len(VerdictPosts) = 1
        /\ VerdictPosts[1].payload.event \in {"APPROVE", "REQUEST_CHANGES", "COMMENT"}
        /\ SummaryPosts[1].payload.body.text.verdict
               = VerdictShownFor(VerdictPosts[1].payload.event)
        /\ VerdictPosts[1].payload.body.detail = Len(SelectSeq(suggestions, Placeable))

\* C39 witness: a finished run that requested changes, with one finding
\* placed inline and one shown in the summary only, whose batch review was
\* rejected.
C39_Witness ==
    /\ PublishDone
    /\ suggestions = <<FWarningNoLine, FCritical>>
    /\ VerdictPosts[1].payload.event = "REQUEST_CHANGES"
    /\ SummaryPosts[1].payload.body.text.verdict = "Changes Requested"
    /\ VerdictPosts[1].payload.body.detail = 1
    /\ run.inline_rc = <<1>>

-----------------------------------------------------------------------------
(* Specification of the two places that dispatch tool calls: the agent     *)
(* loop of live_review, which passes its configuration to execute_tool,    *)
(* and run_verification_pass, which passes config={}                       *)

RulesInDocs == [rules |-> [directory |-> D_docs_rules, file_pattern |-> G_md]]
RulesPatternOnly == [rules |-> [file_pattern |-> G_md]]
DispatchConfigPool == {CfgEmpty, CfgAutoOff, RulesInDocs, RulesPatternOnly}

DispatchCallPool ==
    {ToolUse("read_rule", [rule_id |-> id]) : id \in {R_naming, R_style, R_index, S_src}}
    \cup {ToolUse("read_rule", EmptyDict), ReadA, ReadMissing, ReadOutside, SearchCode,
          RunShell, ToolUse("list_directory", [path |-> S_src])}

InitDispatch ==
    /\ pc = "dispatch"
    /\ config \in DispatchConfigPool
    /\ \E call \in DispatchCallPool, env \in EnvPool :
          tool = [pc |-> "call", name |-> call.name, input_data |-> call.input,
                  env |-> env, loop_result |-> <<>>, verify_result |-> <<>>]
    /\ agent = NotStarted
    /\ twin = NotStarted
    /\ scan = NotStarted
    /\ cov = NotStarted
    /\ prox = NotStarted
    /\ changed_files = <<>>
    /\ diff_stats = StatsEmpty
    /\ suggestions = <<>>
    /\ event = "None"
    /\ event_reasons = <<>>
    /\ PublishIdle
    /\ RoundsIdle

\* The block is dispatched by the tool_use branch of live_review
DispatchFromLoop ==
    /\ tool.pc = "call"
    /\ tool.loop_result = <<>>
    /\ tool' = [tool EXCEPT
                   !.loop_result =
                       <<execute_tool(tool.name, tool.input_data, config, tool.env)>>]
    /\ UNCHANGED <<pc, RiskVars, PublishState, RoundVars, event, event_reasons,
                   agent, twin, scan, cov, prox>>

\* The same block is dispatched by the loop of run_verification_pass
DispatchFromVerification ==
    /\ tool.pc = "call"
    /\ tool.verify_result = <<>>
    /\ tool' = [tool EXCEPT
                   !.verify_result =
                       <<execute_tool(tool.name, tool.input_data, EmptyDict, tool.env)>>]
    /\ UNCHANGED <<pc, RiskVars, PublishState, RoundVars, event, event_reasons,
                   agent, twin, scan, cov, prox>>

NextDispatch ==
    \/ DispatchFromLoop
    \/ DispatchFromVerification

SpecDispatch == InitDispatch /\ [][NextDispatch]_vars

DispatchedByBoth == tool.loop_result # <<>> /\ tool.verify_result # <<>>

\* C40: a tool call gives the same result whether the agent loop or the
\* verification pass dispatches it; read_rule resolves the rule against
\* the same rules directory and file pattern in both.
C40_SameDispatch ==
    DispatchedByBoth => tool.loop_result = tool.verify_result

\* What does hold: the results agree for every tool but read_rule, and for
\* read_rule when the configuration has no rules section or the call is
\* refused before the rules directory is consulted
SameDispatchUnlessRulesConfigured ==
    (/\ DispatchedByBoth
     /\ \/ tool.name # "read_rule"
        \/ "rules" \notin DOMAIN config
        \/ "rule_id" \notin DOMAIN tool.input_data) =>
        tool.loop_result = tool.verify_result

====
